---- MODULE Spec2Model ----
(***************************************************************************)
(* Prognosticator: resilient model caller, agent dispatch and consensus.   *)
(*                                                                         *)
(* The module holds several specifications over one set of variables:      *)
(*   SpecBreaker  the two circuit breakers, called one call at a time      *)
(*                (resilience.CircuitBreaker, OllamaCircuitBreaker)        *)
(*   SpecRetry    the retry decorators (with_exponential_backoff,          *)
(*                with_retry_and_timeout) around one raw call              *)
(*   SpecRace     dispatcher threads reporting failures to the shared      *)
(*                module-level OllamaCircuitBreaker                        *)
(*   SpecConv     run_conversation: fan-out, fan-in, synthesis, consensus  *)
(*   SpecCache     the response cache under two concurrent callers         *)
(*   SpecRepeat    the same question run twice over the cache              *)
(*   SpecClassify  DomainClassifier.classify                               *)
(*   SpecConsensus the weights and the dissent of the consensus            *)
(*   SpecReputation calculate_agent_reputation and its cache               *)
(*   SpecOutcome   record_prediction, record_outcome, validate             *)
(*   SpecQuality   MetaAnalystAgent.assess_analysis_quality                *)
(*   SpecReview    run_conversation and the quality of responses           *)
(*   SpecLimiter   security.SimpleRateLimiter                              *)
(*   SpecArticles  storage.insert_articles                                 *)
(*   SpecLayer     the breaker around the retry around the call            *)
(*   SpecRecovery  the breakers against a recovering backend               *)
(* Each specification leaves the variables of the others unchanged.        *)
(***************************************************************************)
EXTENDS Integers, Sequences, FiniteSets, TLC

(***************************************************************************)
(* Program constants and bounds                                            *)
(***************************************************************************)
failure_threshold == 5

timeout_seconds == 60

half_open_max_calls == 3

success_threshold == 2

\* max_attempts of the retry around _call_ollama_http
max_attempts == 3

TickSeconds == 30

MaxTime == 180

MaxFailureCount == 7

MaxAttemptsBound == 5

CallsPerThread == 3

MaxAgents == 3

MaxCalls == 3

MaxRuns == 2

MaxCount == 6

MaxPredictions == 3

MaxVerified == 10

MaxIds == 2

MaxHits == 6

\* the last second of the rate limiter's clock
MaxClock == 2

\* the largest max_requests and window_sec a limiter is built with
MaxQuota == 2

MaxWindow == 2

\* the longest batch and the number of insert_articles calls
MaxBatch == 2

MaxInserts == 3

CLOSED == "closed"

OPEN == "open"

HALF_OPEN == "half_open"

CircuitState == {CLOSED, OPEN, HALF_OPEN}

\* last_failure_time = None
None == -1

\* the two breaker classes
GENERIC == "CircuitBreaker"

OLLAMA == "OllamaCircuitBreaker"

Impls == {GENERIC, OLLAMA}

(***************************************************************************)
(* State                                                                   *)
(***************************************************************************)
VARIABLES
    \* ---- SpecBreaker ----
    impl,        \* which breaker class the breaker cb is an instance of
    cb,          \* the breaker object's fields
    now,         \* the wall clock (time.time() / datetime.utcnow()), seconds
    lastCall,    \* observation of the last call(): what it returned and how
    consecFails, \* failed invocations of func since the last successful one
    hoSucc,      \* successful invocations since the breaker last entered HALF_OPEN
    lastFailAt,  \* the time at which func last raised (None: never)
    hoFailAt     \* the time at which func last raised while HALF_OPEN (None: never)

breakerVars == <<impl, cb, now, lastCall, consecFails, hoSucc, lastFailAt, hoFailAt>>

VARIABLES
    \* ---- SpecRetry ----
    rkind,       \* which retry wrapper is installed around the raw call
    rparams,     \* the wrapper's arguments: limit, base delay, max delay
    rinput,      \* "valid" or "empty_model": the model argument of the raw call
    rpc,         \* where the wrapper is: "ready", "returned", "returned_none", "raised"
    attempts,    \* how many times the wrapped function has been called
    waits,       \* the delays slept between attempts, in order
    lastErr      \* the error of the last attempt ("none" if it returned)

retryVars == <<rkind, rparams, rinput, rpc, attempts, waits, lastErr>>

VARIABLES
    \* ---- SpecRace ----
    tpc,         \* per dispatcher thread: where it is inside _circuit_breaker.call
    tmp,         \* per thread: the failure_count it loaded for "+= 1"
    calls,       \* per thread: calls started so far
    failedCalls, \* invocations of func that raised and whose _on_failure has finished
    anySuccess   \* whether some invocation of func has returned

raceVars == <<tpc, tmp, calls, failedCalls, anySuccess>>

VARIABLES
    \* ---- SpecConv ----
    question,            \* the question argument: "" or a valid question
    nAgents,             \* the panel is agents 1..nAgents
    cache,               \* agent_responses rows for this question, per agent
    fut,                 \* per agent: state of its future in the pool
    res,                 \* per agent: what its future holds once done
    agent_outputs,       \* list built by the collecting loop
    declined_agents,     \* list built by the collecting loop
    total_weight,
    weighted_probability,
    weighted_confidence,
    mpc,                 \* where run_conversation is
    summary,
    synthCalled,         \* whether call_model was invoked for the synthesis
    agent_predictions,   \* the agents passed to get_weighted_consensus
    reputation_consensus,
    outcome              \* which return statement produced the result

convVars == <<question, nAgents, cache, fut, res, agent_outputs, declined_agents,
              total_weight, weighted_probability, weighted_confidence, mpc,
              summary, synthCalled, agent_predictions, reputation_consensus,
              outcome>>

VARIABLES
    \* ---- SpecCache ----
    table,       \* agent_responses: the row stored under (question_hash, agent_name)
    nextId,      \* the id AUTOINCREMENT gives the next inserted row
    origin,      \* per row id: the call_agent that stored the row, and what it returned
    cpc,         \* per caller: where its call_agent is
    carg,        \* per caller: the question and agent of its call_agent
    hadRow,      \* per caller: the row its get_cached_response found
    modelCalled, \* per caller: whether its call_agent invoked call_model
    stored,      \* per caller: what its cache_response returned (None: not called)
    cres,        \* per caller: the dict its call_agent returned
    ncalls       \* call_agent calls started so far

cacheVars == <<table, nextId, origin, cpc, carg, hadRow, modelCalled, stored,
               cres, ncalls>>

VARIABLES
    \* ---- SpecRepeat ----
    rquestion,   \* the question every run is asked
    classified,  \* whether DomainClassifier.classify(question) returns a domain
    pending,     \* the agents of the panel whose future is not yet collected
    routs,       \* agent_outputs of the run in progress
    rdeclined,   \* declined_agents of the run in progress
    runs         \* what each finished run returned, in order

repeatVars == <<rquestion, classified, pending, routs, rdeclined, runs>>

VARIABLES
    \* ---- SpecClassify ----
    counts,          \* per domain: pattern matches found in the question
    classification   \* what DomainClassifier.classify returned or raised

classifyVars == <<counts, classification>>

VARIABLES
    \* ---- SpecConsensus ----
    cinput,      \* the agent outputs and the domain classification to aggregate
    consensus    \* the agent_predictions built from them and the consensus

consensusVars == <<cinput, consensus>>

VARIABLES
    \* ---- SpecReputation ----
    verified,    \* the verified predictions of one agent in one domain, by kind
    rep_cache,   \* the agent's reputation_cache row for the domain
    rep_result   \* what the last calculate_agent_reputation returned

reputationVars == <<verified, rep_cache, rep_result>>

VARIABLES
    \* ---- SpecOutcome ----
    predictions,     \* the predictions table, by prediction id
    score_cache,     \* the reputation_cache rows of the agent, by domain
    outcomeIds,      \* the prediction ids an outcome was recorded for
    lastOp           \* the last operation on the tracker and what it did

outcomeVars == <<predictions, score_cache, outcomeIds, lastOp>>

VARIABLES
    \* ---- SpecQuality ----
    qinput,      \* what the patterns find in the analysed text of a response
    quality      \* the AnalysisQualityScore assess_analysis_quality returns

qualityVars == <<qinput, quality>>

VARIABLES
    \* ---- SpecReview ----
    vfirst,      \* what the model answers to the first prompt of each agent
    vcalls,      \* how many times call_model was called for each agent
    vouts,       \* agent_outputs of the run
    vconsensus   \* the agent_predictions that reach the consensus

reviewVars == <<vfirst, vcalls, vouts, vconsensus>>

VARIABLES
    \* ---- SpecLimiter ----
    limiter,     \* max_requests and window_sec of the SimpleRateLimiter
    requests,    \* self.requests: the kept timestamps of each key
    wall,        \* what time() returns, in seconds
    granted,     \* for each key and second, how many calls returned True
    answer       \* the key and the result of the last is_allowed call

limiterVars == <<limiter, requests, wall, granted, answer>>

VARIABLES
    \* ---- SpecArticles ----
    articles,    \* the articles table: the row of each id
    ingest_log,  \* the ingest_log table: the count of each content hash
    submitted,   \* how many times each content was handed to insert_articles
    inserts      \* how many insert_articles calls were made

articleVars == <<articles, ingest_log, submitted, inserts>>

VARIABLES
    \* ---- SpecLayer ----
    lcb,         \* the breaker _call_ollama_http is wrapped in
    lnow,        \* time.time(), in seconds
    lpc,         \* where the caller is: "idle", or "attempt" inside the retry
    lattempt,    \* the attempt of the retry wrapper that comes next
    lresult,     \* what call_model did last: returned, or raised
    attemptLog   \* the last attempt at the backend and the breaker around it

layerVars == <<lcb, lnow, lpc, lattempt, lresult, attemptLog>>

VARIABLES
    \* ---- SpecRecovery ----
    healthy,     \* whether the backend has recovered: every call succeeds
    healedFrom   \* the state the breaker was in when the backend recovered

recoveryVars == <<healthy, healedFrom>>

vars == <<breakerVars, retryVars, raceVars, convVars, cacheVars, repeatVars, classifyVars, consensusVars, reputationVars, outcomeVars, qualityVars, reviewVars, limiterVars, articleVars, layerVars, recoveryVars>>

\* what the actions of one specification leave alone
outsideBreaker == <<retryVars, raceVars, convVars, cacheVars, repeatVars, classifyVars, consensusVars, reputationVars, outcomeVars, qualityVars, reviewVars, limiterVars, articleVars, layerVars, recoveryVars>>

outsideRetry == <<breakerVars, raceVars, convVars, cacheVars, repeatVars, classifyVars, consensusVars, reputationVars, outcomeVars, qualityVars, reviewVars, limiterVars, articleVars, layerVars, recoveryVars>>

outsideRace == <<impl, now, lastCall, consecFails, hoSucc, lastFailAt, hoFailAt,
                 retryVars, convVars, cacheVars, repeatVars, classifyVars, consensusVars, reputationVars, outcomeVars, qualityVars, reviewVars, limiterVars, articleVars, layerVars, recoveryVars>>

outsideConv == <<breakerVars, retryVars, raceVars, cacheVars, repeatVars, classifyVars, consensusVars, reputationVars, outcomeVars, qualityVars, reviewVars, limiterVars, articleVars, layerVars, recoveryVars>>

outsideCache == <<breakerVars, retryVars, raceVars, convVars, repeatVars, classifyVars, consensusVars, reputationVars, outcomeVars, qualityVars, reviewVars, limiterVars, articleVars, layerVars, recoveryVars>>

outsideRepeat == <<breakerVars, retryVars, raceVars, convVars, classifyVars, consensusVars, reputationVars, outcomeVars, qualityVars, reviewVars, limiterVars, articleVars, layerVars, recoveryVars>>

outsideClassify == <<breakerVars, retryVars, raceVars, convVars, cacheVars, repeatVars, consensusVars, reputationVars, outcomeVars, qualityVars, reviewVars, limiterVars, articleVars, layerVars, recoveryVars>>

outsideConsensus == <<breakerVars, retryVars, raceVars, convVars, cacheVars, repeatVars,
                      classifyVars, reputationVars, outcomeVars, qualityVars, reviewVars, limiterVars, articleVars, layerVars, recoveryVars>>

outsideReputation == <<breakerVars, retryVars, raceVars, convVars, cacheVars, repeatVars,
                       classifyVars, consensusVars, outcomeVars, qualityVars, reviewVars, limiterVars, articleVars, layerVars, recoveryVars>>

outsideOutcome == <<breakerVars, retryVars, raceVars, convVars, cacheVars, repeatVars,
                    classifyVars, consensusVars, reputationVars, qualityVars, reviewVars, limiterVars, articleVars, layerVars, recoveryVars>>

outsideQuality == <<breakerVars, retryVars, raceVars, convVars, cacheVars, repeatVars,
                    classifyVars, consensusVars, reputationVars, outcomeVars, reviewVars, limiterVars, articleVars, layerVars, recoveryVars>>

outsideReview == <<breakerVars, retryVars, raceVars, convVars, cacheVars, repeatVars,
                   classifyVars, consensusVars, reputationVars, outcomeVars, qualityVars, limiterVars, articleVars, layerVars, recoveryVars>>

outsideLimiter == <<breakerVars, retryVars, raceVars, convVars, cacheVars, repeatVars, classifyVars, consensusVars, reputationVars, outcomeVars, qualityVars, reviewVars, articleVars, layerVars, recoveryVars>>

outsideArticles == <<breakerVars, retryVars, raceVars, convVars, cacheVars, repeatVars, classifyVars, consensusVars, reputationVars, outcomeVars, qualityVars, reviewVars, limiterVars, layerVars, recoveryVars>>

outsideLayer == <<breakerVars, retryVars, raceVars, convVars, cacheVars, repeatVars, classifyVars, consensusVars, reputationVars, outcomeVars, qualityVars, reviewVars, limiterVars, articleVars, recoveryVars>>

outsideRecovery == <<breakerVars, retryVars, raceVars, convVars, cacheVars, repeatVars, classifyVars, consensusVars, reputationVars, outcomeVars, qualityVars, reviewVars, limiterVars, articleVars, layerVars>>





(***************************************************************************)
(* The circuit breakers: resilience.CircuitBreaker, OllamaCircuitBreaker   *)
(***************************************************************************)
NewBreaker ==
    [state |-> CLOSED, failure_count |-> 0, success_count |-> 0,
     last_failure_time |-> None, half_open_calls |-> 0]

\* a breaker that never tries again once a failure is stamped
ShouldAttemptResetNever(b, t) == b.last_failure_time = None

ShouldAttemptReset(b, t) ==
    IF b.last_failure_time = None
    THEN TRUE
    ELSE (t - b.last_failure_time) >= timeout_seconds

\* CircuitBreaker._reset
Reset(b) ==
    [b EXCEPT !.state = CLOSED, !.failure_count = 0,
              !.success_count = 0, !.half_open_calls = 0]

\* the first lines of call(): the OPEN gate
Gate(b, t) ==
    IF b.state = OPEN /\ ShouldAttemptReset(b, t)
    THEN [b EXCEPT !.state = HALF_OPEN, !.half_open_calls = 0]
    ELSE b

Blocked(b, t) == b.state = OPEN /\ ~ShouldAttemptReset(b, t)

OnSuccessGeneric(b) ==
    IF b.state = HALF_OPEN
    THEN LET c == [b EXCEPT !.success_count = b.success_count + 1]
         IN IF c.success_count >= success_threshold THEN Reset(c) ELSE c
    ELSE [b EXCEPT !.failure_count = 0]

\* a success that closes the breaker without clearing failure_count
OnSuccessOllamaKeepCount(b) ==
    IF b.state = HALF_OPEN
    THEN LET c == [b EXCEPT !.half_open_calls = b.half_open_calls + 1]
         IN IF c.half_open_calls >= half_open_max_calls
            THEN [c EXCEPT !.state = CLOSED]
            ELSE c
    ELSE IF b.state = CLOSED
         THEN [b EXCEPT !.failure_count = 0]
         ELSE b

OnSuccessOllama(b) ==
    IF b.state = HALF_OPEN
    THEN LET c == [b EXCEPT !.half_open_calls = b.half_open_calls + 1]
         IN IF c.half_open_calls >= half_open_max_calls
            THEN [c EXCEPT !.state = CLOSED, !.failure_count = 0]
            ELSE c
    ELSE IF b.state = CLOSED
         THEN [b EXCEPT !.failure_count = 0]
         ELSE b

\* a failure while HALF_OPEN that does not reopen the breaker
OnFailureGenericNoReopen(b, t) ==
    LET c == [b EXCEPT !.failure_count = b.failure_count + 1,
                       !.last_failure_time = t]
    IN IF c.state # HALF_OPEN /\ c.failure_count >= failure_threshold
       THEN [c EXCEPT !.state = OPEN]
       ELSE c

OnFailureGeneric(b, t) ==
    LET c == [b EXCEPT !.failure_count = b.failure_count + 1,
                       !.last_failure_time = t]
    IN IF c.state = HALF_OPEN
       THEN [c EXCEPT !.state = OPEN, !.half_open_calls = 0]
       ELSE IF c.failure_count >= failure_threshold
            THEN [c EXCEPT !.state = OPEN]
            ELSE c

\* the threshold compared with > instead of >=
OnFailureOllamaLate(b, t) ==
    LET c == [b EXCEPT !.failure_count = b.failure_count + 1,
                       !.last_failure_time = t]
    IN IF c.state = HALF_OPEN
       THEN [c EXCEPT !.state = OPEN]
       ELSE IF c.failure_count > failure_threshold
            THEN [c EXCEPT !.state = OPEN]
            ELSE c

OnFailureOllama(b, t) ==
    LET c == [b EXCEPT !.failure_count = b.failure_count + 1,
                       !.last_failure_time = t]
    IN IF c.state = HALF_OPEN
       THEN [c EXCEPT !.state = OPEN]
       ELSE IF c.failure_count >= failure_threshold
            THEN [c EXCEPT !.state = OPEN]
            ELSE c

OnSuccess(i, b) == IF i = GENERIC THEN OnSuccessGeneric(b) ELSE OnSuccessOllama(b)

OnFailure(i, b, t) == IF i = GENERIC THEN OnFailureGeneric(b, t) ELSE OnFailureOllama(b, t)

NoCall ==
    [result |-> "none", invoked |-> FALSE, from |-> CLOSED,
     probe |-> FALSE, elapsed |-> 0, at |-> 0]

\* what a call() made at time t on breaker b is observed to do, when the
\* wrapped function succeeds (ok) or raises; lf is the time func last raised
Observe(b, t, ok, lf) ==
    [result  |-> IF Blocked(b, t) THEN "blocked"
                 ELSE IF ok THEN "success" ELSE "failure",
     invoked |-> ~Blocked(b, t),
     from    |-> b.state,
     probe   |-> ~Blocked(b, t) /\ Gate(b, t).state = HALF_OPEN,
     elapsed |-> IF lf = None THEN 0 ELSE t - lf,
     at      |-> t]

BreakerInit ==
    /\ impl \in Impls
    /\ cb = NewBreaker
    /\ now = 0
    /\ lastCall = NoCall
    /\ consecFails = 0
    /\ hoSucc = 0
    /\ lastFailAt = None
    /\ hoFailAt = None

\* call() while OPEN and inside the cooldown: returns the degraded result or
\* raises CircuitBreakerOpenError without calling func
CallBlocked ==
    /\ Blocked(cb, now)
    /\ lastCall' = Observe(cb, now, FALSE, lastFailAt)
    /\ UNCHANGED <<impl, cb, now, consecFails, hoSucc, lastFailAt, hoFailAt>>
    /\ UNCHANGED outsideBreaker

\* call() whose func returns
CallSuccess ==
    /\ ~Blocked(cb, now)
    /\ cb' = OnSuccess(impl, Gate(cb, now))
    /\ lastCall' = Observe(cb, now, TRUE, lastFailAt)
    /\ consecFails' = 0
    /\ hoSucc' = IF Gate(cb, now).state = HALF_OPEN
                 THEN (IF cb.state = OPEN THEN 0 ELSE hoSucc) + 1
                 ELSE hoSucc
    /\ UNCHANGED <<impl, now, lastFailAt, hoFailAt>>
    /\ UNCHANGED outsideBreaker

\* call() whose func raises
CallFailure ==
    /\ ~Blocked(cb, now)
    /\ cb.failure_count < MaxFailureCount
    /\ cb' = OnFailure(impl, Gate(cb, now), now)
    /\ lastCall' = Observe(cb, now, FALSE, lastFailAt)
    /\ consecFails' = consecFails + 1
    /\ hoSucc' = 0
    /\ lastFailAt' = now
    /\ hoFailAt' = IF Gate(cb, now).state = HALF_OPEN THEN now ELSE hoFailAt
    /\ UNCHANGED <<impl, now>>
    /\ UNCHANGED outsideBreaker

Tick ==
    /\ now + TickSeconds <= MaxTime
    /\ now' = now + TickSeconds
    /\ UNCHANGED <<impl, cb, lastCall, consecFails, hoSucc, lastFailAt, hoFailAt>>
    /\ UNCHANGED outsideBreaker

\* the breaker as the other specifications start with it: the module-level
\* _circuit_breaker = OllamaCircuitBreaker()
BreakerIdle ==
    /\ impl = OLLAMA
    /\ cb = NewBreaker
    /\ now = 0
    /\ lastCall = NoCall
    /\ consecFails = 0
    /\ hoSucc = 0
    /\ lastFailAt = None
    /\ hoFailAt = None

(***************************************************************************)
(* The retry decorators                                                    *)
(***************************************************************************)
BACKOFF == "with_exponential_backoff"

TENACITY == "with_retry_and_timeout"

FALLBACK == "with_retry_and_timeout_no_tenacity"

RetryKinds == {BACKOFF, TENACITY, FALLBACK}

\* wait_exponential(multiplier=2, min=1, max=10)
wait_multiplier == 2

wait_min == 1

wait_max == 10

TransientErrors == {"timeout", "connection", "http_status"}

RECURSIVE Pow2(_)
Pow2(n) == IF n = 0 THEN 1 ELSE 2 * Pow2(n - 1)

Min(a, b) == IF a <= b THEN a ELSE b

Max(a, b) == IF a >= b THEN a ELSE b

\* delay = min(base_delay * (2 ** attempt), max_delay), attempt counted from 0
BackoffDelay(p, attempt) == Min(p.base * Pow2(attempt), p.max)

\* tenacity's wait_exponential: multiplier * 2 ** (attempt_number - 1),
\* clamped to [min, max]; attempt_number counted from 1
TenacityWait(attempt_number) ==
    Max(Max(0, wait_min), Min(wait_multiplier * Pow2(attempt_number - 1), wait_max))

\* one iteration too many
BackoffMayRetryExtra(p, made) == made - 1 <= p.limit

\* the loop of with_exponential_backoff runs range(max_retries + 1)
BackoffMayRetry(p, made) == made - 1 < p.limit

\* stop_after_attempt(max_attempts)
TenacityMayRetry(p, made) == ~(made >= p.limit)

\* retry=retry_if_exception_type(Exception), and "except Exception" in
\* with_exponential_backoff: every error is retried
RetriesOn(err) == TRUE

MayRetry(k, p, made, err) ==
    /\ RetriesOn(err)
    /\ CASE k = BACKOFF -> BackoffMayRetry(p, made)
         [] k = TENACITY -> TenacityMayRetry(p, made)
         [] OTHER -> FALSE

WaitAfter(k, p, made) ==
    IF k = BACKOFF THEN BackoffDelay(p, made - 1) ELSE TenacityWait(made)

\* what the raw call (_call_ollama_http's body) can do on one attempt
RawOutcomes(input) ==
    IF input = "empty_model" THEN {"malformed"} ELSE TransientErrors \cup {"none"}

RetryParams ==
    [limit : 1..MaxAttemptsBound, base : {1, 2}, max : {3, 60}]

\* with_retry_and_timeout takes max_attempts only; its waits are fixed
TenacityParams ==
    [limit : 1..MaxAttemptsBound, base : {wait_multiplier}, max : {wait_max}]

RetryIdle ==
    /\ rkind = TENACITY
    /\ rparams = [limit |-> 3, base |-> wait_multiplier, max |-> wait_max]
    /\ rinput = "valid"
    /\ rpc = "ready"
    /\ attempts = 0
    /\ waits = <<>>
    /\ lastErr = "none"

RetryInit ==
    /\ rkind \in RetryKinds
    /\ rparams \in RetryParams \cup TenacityParams
    /\ rkind = BACKOFF <=> rparams \in RetryParams
    /\ rinput \in {"valid", "empty_model"}
    /\ rpc = "ready"
    /\ attempts = 0
    /\ waits = <<>>
    /\ lastErr = "none"

\* an attempt that returns: the wrapper returns its value
AttemptReturns ==
    /\ rpc = "ready"
    /\ "none" \in RawOutcomes(rinput)
    /\ attempts' = attempts + 1
    /\ lastErr' = "none"
    /\ rpc' = "returned"
    /\ UNCHANGED <<rkind, rparams, rinput, waits>>
    /\ UNCHANGED outsideRetry

\* an attempt that raises and is followed by a sleep and another attempt
AttemptRaisesRetry ==
    /\ rpc = "ready"
    /\ \E err \in RawOutcomes(rinput) \ {"none"} :
          /\ MayRetry(rkind, rparams, attempts + 1, err)
          /\ lastErr' = err
    /\ attempts' = attempts + 1
    /\ waits' = Append(waits, WaitAfter(rkind, rparams, attempts + 1))
    /\ rpc' = "ready"
    /\ UNCHANGED <<rkind, rparams, rinput>>
    /\ UNCHANGED outsideRetry

\* an attempt that raises and is the last one: with_exponential_backoff
\* re-raises, tenacity raises RetryError
AttemptRaisesFinal ==
    /\ rpc = "ready"
    /\ rkind # FALLBACK
    /\ \E err \in RawOutcomes(rinput) \ {"none"} :
          /\ ~MayRetry(rkind, rparams, attempts + 1, err)
          /\ lastErr' = err
    /\ attempts' = attempts + 1
    /\ rpc' = "raised"
    /\ UNCHANGED <<rkind, rparams, rinput, waits>>
    /\ UNCHANGED outsideRetry

\* without tenacity the wrapper logs the error and returns None
AttemptRaisesSwallowed ==
    /\ rpc = "ready"
    /\ rkind = FALLBACK
    /\ \E err \in RawOutcomes(rinput) \ {"none"} : lastErr' = err
    /\ attempts' = attempts + 1
    /\ rpc' = "returned_none"
    /\ UNCHANGED <<rkind, rparams, rinput, waits>>
    /\ UNCHANGED outsideRetry

(***************************************************************************)
(* Dispatcher threads sharing the module-level OllamaCircuitBreaker        *)
(***************************************************************************)
\* OllamaConfig.max_workers: the size of the ThreadPoolExecutor
max_workers == 2

Threads == 1..max_workers

RaceInit ==
    /\ tpc = [t \in Threads |-> "idle"]
    /\ tmp = [t \in Threads |-> 0]
    /\ calls = [t \in Threads |-> 0]
    /\ failedCalls = 0
    /\ anySuccess = FALSE

\* call(): the gate; blocked calls return the degraded result at once
ThreadCall(t) ==
    /\ tpc[t] = "idle"
    /\ calls[t] < CallsPerThread
    /\ calls' = [calls EXCEPT ![t] = calls[t] + 1]
    /\ IF Blocked(cb, now)
       THEN UNCHANGED <<cb, tpc>>
       ELSE /\ cb' = Gate(cb, now)
            /\ tpc' = [tpc EXCEPT ![t] = "func"]
    /\ UNCHANGED <<tmp, failedCalls, anySuccess>>
    /\ UNCHANGED outsideRace

\* func returns: _on_success
ThreadFuncReturns(t) ==
    /\ tpc[t] = "func"
    /\ cb' = OnSuccessOllama(cb)
    /\ anySuccess' = TRUE
    /\ tpc' = [tpc EXCEPT ![t] = "idle"]
    /\ UNCHANGED <<tmp, calls, failedCalls>>
    /\ UNCHANGED outsideRace

\* func raises: _on_failure starts; "self.failure_count += 1" loads ...
ThreadLoadCount(t) ==
    /\ tpc[t] = "func"
    /\ tmp' = [tmp EXCEPT ![t] = cb.failure_count]
    /\ tpc' = [tpc EXCEPT ![t] = "store"]
    /\ UNCHANGED <<cb, calls, failedCalls, anySuccess>>
    /\ UNCHANGED outsideRace

\* ... and stores; no lock is held in between
ThreadStoreCount(t) ==
    /\ tpc[t] = "store"
    /\ cb' = [cb EXCEPT !.failure_count = tmp[t] + 1]
    /\ tpc' = [tpc EXCEPT ![t] = "stamp"]
    /\ UNCHANGED <<tmp, calls, failedCalls, anySuccess>>
    /\ UNCHANGED outsideRace

\* self.last_failure_time = time.time()
ThreadStamp(t) ==
    /\ tpc[t] = "stamp"
    /\ cb' = [cb EXCEPT !.last_failure_time = now]
    /\ tpc' = [tpc EXCEPT ![t] = "trip"]
    /\ UNCHANGED <<tmp, calls, failedCalls, anySuccess>>
    /\ UNCHANGED outsideRace

\* the state update at the end of _on_failure
ThreadTrip(t) ==
    /\ tpc[t] = "trip"
    /\ cb' = IF cb.state = HALF_OPEN
             THEN [cb EXCEPT !.state = OPEN]
             ELSE IF cb.failure_count >= failure_threshold
                  THEN [cb EXCEPT !.state = OPEN]
                  ELSE cb
    /\ failedCalls' = failedCalls + 1
    /\ tpc' = [tpc EXCEPT ![t] = "idle"]
    /\ UNCHANGED <<tmp, calls, anySuccess>>
    /\ UNCHANGED outsideRace

(***************************************************************************)
(* run_conversation                                                        *)
(***************************************************************************)
ConvIdle ==
    /\ question = ""
    /\ nAgents = 0
    /\ cache = <<>>
    /\ fut = <<>>
    /\ res = <<>>
    /\ agent_outputs = <<>>
    /\ declined_agents = <<>>
    /\ total_weight = 0
    /\ weighted_probability = <<0, 1>>
    /\ weighted_confidence = <<0, 1>>
    /\ mpc = "start"
    /\ summary = [verdict |-> "none", probability |-> <<0, 0>>, confidence |-> <<0, 0>>]
    /\ synthCalled = FALSE
    /\ agent_predictions = <<>>
    /\ reputation_consensus = [present |-> FALSE]
    /\ outcome = "none"

\* AppConfig.cache_responses
cache_responses == TRUE

\* numbers are exact fractions <<numerator, denominator>>; probabilities and
\* confidences are in percent; <<0, 0>> stands for None
NoNumber == <<0, 0>>

Agents == 1..nAgents

\* agent.get("weight", 1.0) of the configured panel
Weight(a) == IF a % 2 = 1 THEN 1 ELSE 2

\* get_domain_expertise(agent_name, primary_domain), in tenths: agent 1 is
\* listed in DOMAIN_EXPERTISE_MATRIX for the domain, the others get the 0.7
\* default
DomainExpertise(a) == IF a = 1 THEN 9 ELSE 7

\* calculate_agent_reputation for an agent with no verified prediction, in tenths
NeutralReputation == 5

\* the structured answers a model may give: probability, confidence (percent)
Responses == {[probability |-> 80, confidence |-> 90],
              [probability |-> 20, confidence |-> 50]}

NoEntry == [kind |-> "none", probability |-> None, confidence |-> None]

DeclinedEntry == [kind |-> "declined", probability |-> None, confidence |-> None]

ResponseEntry(r) ==
    [kind |-> "response", probability |-> r.probability, confidence |-> r.confidence]

CacheEntries == {NoEntry, DeclinedEntry} \cup {ResponseEntry(r) : r \in Responses}

NoResult ==
    [agent |-> 0, kind |-> "none", parsed |-> FALSE, probability |-> None,
     confidence |-> None, weight |-> 0, cached |-> FALSE, declined |-> FALSE]

\* the dict call_agent returns
AgentResult(a, k, isDict, p, c, hit, decl) ==
    [agent |-> a, kind |-> k, parsed |-> isDict, probability |-> p,
     confidence |-> c, weight |-> Weight(a), cached |-> hit, declined |-> decl]

\* the record appended when future.result() raises
UnknownResult ==
    [agent |-> 0, kind |-> "unknown", parsed |-> FALSE, probability |-> None,
     confidence |-> None, weight |-> 1, cached |-> FALSE, declined |-> FALSE]

\* the future of a call_agent that raised
RaisedFuture == [NoResult EXCEPT !.kind = "raised"]

\* call_agent on a cache hit
FromCache(a, e) ==
    IF e.kind = "declined"
    THEN AgentResult(a, "declined", TRUE, None, None, TRUE, TRUE)
    ELSE AgentResult(a, "response", TRUE, e.probability, e.confidence, TRUE, FALSE)

\* cache_response: INSERT, the UNIQUE(question_hash, agent_name) row wins
CacheResponse(c, a, e) == IF c[a].kind = "none" THEN [c EXCEPT ![a] = e] ELSE c

ConvInit ==
    /\ question \in {"", "q"}
    /\ nAgents \in 0..MaxAgents
    /\ cache \in [1..nAgents -> CacheEntries]
    /\ fut = [a \in 1..nAgents |-> "unsubmitted"]
    /\ res = [a \in 1..nAgents |-> NoResult]
    /\ agent_outputs = <<>>
    /\ declined_agents = <<>>
    /\ total_weight = 0
    /\ weighted_probability = <<0, 1>>
    /\ weighted_confidence = <<0, 1>>
    /\ mpc = "start"
    /\ summary = [verdict |-> "none", probability |-> NoNumber, confidence |-> NoNumber]
    /\ synthCalled = FALSE
    /\ agent_predictions = <<>>
    /\ reputation_consensus = [present |-> FALSE]
    /\ outcome = "none"

NullSummary(v) == [verdict |-> v, probability |-> NoNumber, confidence |-> NoNumber]

\* "if not question or not question.strip()"
RejectEmptyQuestion ==
    /\ mpc = "start"
    /\ question = ""
    /\ summary' = NullSummary("Invalid input")
    /\ outcome' = "invalid_input"
    /\ mpc' = "done"
    /\ UNCHANGED <<question, nAgents, cache, fut, res, agent_outputs, declined_agents,
                   total_weight, weighted_probability, weighted_confidence,
                   synthCalled, agent_predictions, reputation_consensus>>
    /\ UNCHANGED outsideConv

\* "if not agents"
NoAgentsConfigured ==
    /\ mpc = "start"
    /\ question # ""
    /\ nAgents = 0
    /\ summary' = NullSummary("No agents configured")
    /\ outcome' = "no_agents"
    /\ mpc' = "done"
    /\ UNCHANGED <<question, nAgents, cache, fut, res, agent_outputs, declined_agents,
                   total_weight, weighted_probability, weighted_confidence,
                   synthCalled, agent_predictions, reputation_consensus>>
    /\ UNCHANGED outsideConv

\* "if len(agents) < 2"
OrchestrationBlocked ==
    /\ mpc = "start"
    /\ question # ""
    /\ nAgents # 0
    /\ nAgents < 2
    /\ summary' = NullSummary("Orchestration Blocked")
    /\ outcome' = "blocked"
    /\ mpc' = "done"
    /\ UNCHANGED <<question, nAgents, cache, fut, res, agent_outputs, declined_agents,
                   total_weight, weighted_probability, weighted_confidence,
                   synthCalled, agent_predictions, reputation_consensus>>
    /\ UNCHANGED outsideConv

\* executor.submit(call_agent, agent) for every agent of the panel
SubmitAll ==
    /\ mpc = "start"
    /\ question # ""
    /\ nAgents >= 2
    /\ fut' = [a \in Agents |-> "pending"]
    /\ mpc' = "collect"
    /\ UNCHANGED <<question, nAgents, cache, res, agent_outputs, declined_agents,
                   total_weight, weighted_probability, weighted_confidence,
                   summary, synthCalled, agent_predictions, reputation_consensus,
                   outcome>>
    /\ UNCHANGED outsideConv

Running == {a \in Agents : fut[a] = "running"}

\* max_workers = min(len(agents), cfg.ollama.max_workers)
PoolSize == Min(nAgents, max_workers)

\* a free worker takes the oldest queued call
WorkerStart(a) ==
    /\ fut[a] = "pending"
    /\ \A b \in Agents : b < a => fut[b] # "pending"
    /\ Cardinality(Running) < PoolSize
    /\ fut' = [fut EXCEPT ![a] = "running"]
    /\ UNCHANGED <<question, nAgents, cache, res, agent_outputs, declined_agents,
                   total_weight, weighted_probability, weighted_confidence, mpc,
                   summary, synthCalled, agent_predictions, reputation_consensus,
                   outcome>>
    /\ UNCHANGED outsideConv

Settle(a, r, c) ==
    /\ fut' = [fut EXCEPT ![a] = "done"]
    /\ res' = [res EXCEPT ![a] = r]
    /\ cache' = c
    /\ UNCHANGED <<question, nAgents, agent_outputs, declined_agents,
                   total_weight, weighted_probability, weighted_confidence, mpc,
                   summary, synthCalled, agent_predictions, reputation_consensus,
                   outcome>>
    /\ UNCHANGED outsideConv

\* get_cached_response raises (sqlite3 error): nothing in call_agent catches it
AgentCacheError(a) ==
    /\ fut[a] = "running"
    /\ cache_responses
    /\ Settle(a, RaisedFuture, cache)

AgentCacheHit(a) ==
    /\ fut[a] = "running"
    /\ cache_responses
    /\ cache[a].kind # "none"
    /\ Settle(a, FromCache(a, cache[a]), cache)

Miss(a) == ~cache_responses \/ cache[a].kind = "none"

\* the model answers with the JSON brief; it is cached
AgentResponds(a) ==
    /\ fut[a] = "running"
    /\ Miss(a)
    /\ \E r \in Responses :
          Settle(a, AgentResult(a, "response", TRUE, r.probability, r.confidence,
                                FALSE, FALSE),
                 IF cache_responses THEN CacheResponse(cache, a, ResponseEntry(r))
                 ELSE cache)

\* the model answers {"declined": true}; the decline is cached
AgentDeclines(a) ==
    /\ fut[a] = "running"
    /\ Miss(a)
    /\ Settle(a, AgentResult(a, "declined", TRUE, None, None, FALSE, TRUE),
              IF cache_responses THEN CacheResponse(cache, a, DeclinedEntry)
              ELSE cache)

\* the model answers text without a JSON object: parsed is None, nothing cached
AgentUnparsed(a) ==
    /\ fut[a] = "running"
    /\ Miss(a)
    /\ Settle(a, AgentResult(a, "unparsed", FALSE, None, None, FALSE, FALSE), cache)

\* call_model raises: "except Exception" turns it into raw = "ERROR: ..."
AgentFails(a) ==
    /\ fut[a] = "running"
    /\ Miss(a)
    /\ Settle(a, AgentResult(a, "failed", FALSE, None, None, FALSE, FALSE), cache)

\* a raised future logged but not recorded
CollectOutputsDropRaised(outs, r) ==
    IF r.kind = "raised" THEN outs
    ELSE IF r.declined THEN outs
    ELSE Append(outs, r)

\* the body of "for future in as_completed(futures)" for a result r
CollectOutputs(outs, r) ==
    IF r.kind = "raised" THEN Append(outs, UnknownResult)
    ELSE IF r.declined THEN outs
    ELSE Append(outs, r)

CollectDeclined(decl, r) ==
    IF r.kind # "raised" /\ r.declined THEN Append(decl, r) ELSE decl

\* whether the loop body adds the result to the running sums
Counted(r) == r.kind # "raised" /\ ~r.declined

HasNumber(x) == x # None

Collect(a) ==
    /\ mpc = "collect"
    /\ fut[a] = "done"
    /\ fut' = [fut EXCEPT ![a] = "collected"]
    /\ agent_outputs' = CollectOutputs(agent_outputs, res[a])
    /\ declined_agents' = CollectDeclined(declined_agents, res[a])
    /\ total_weight' = IF Counted(res[a]) THEN total_weight + res[a].weight
                       ELSE total_weight
    /\ weighted_probability' =
          IF Counted(res[a]) /\ res[a].parsed /\ HasNumber(res[a].probability)
          THEN <<weighted_probability[1] + res[a].probability * res[a].weight, 1>>
          ELSE weighted_probability
    /\ weighted_confidence' =
          IF Counted(res[a]) /\ res[a].parsed /\ HasNumber(res[a].confidence)
          THEN <<weighted_confidence[1] + res[a].confidence * res[a].weight, 1>>
          ELSE weighted_confidence
    /\ UNCHANGED <<question, nAgents, cache, res, mpc, summary, synthCalled,
                   agent_predictions, reputation_consensus, outcome>>
    /\ UNCHANGED outsideConv

\* leaving the loop at the first completed future
FirstSettled(f) == \E a \in DOMAIN f : f[a] = "collected"

\* as_completed is exhausted and the "with ThreadPoolExecutor" block is left
AllSettled(f) == \A a \in DOMAIN f : f[a] = "collected"

\* "if total_weight > 0": the sums become the weighted means
Normalize ==
    /\ mpc = "collect"
    /\ AllSettled(fut)
    /\ weighted_probability' =
          IF total_weight > 0 THEN <<weighted_probability[1], total_weight>>
          ELSE weighted_probability
    /\ weighted_confidence' =
          IF total_weight > 0 THEN <<weighted_confidence[1], total_weight>>
          ELSE weighted_confidence
    /\ mpc' = "synth"
    /\ UNCHANGED <<question, nAgents, cache, fut, res, agent_outputs, declined_agents,
                   total_weight, summary, synthCalled, agent_predictions,
                   reputation_consensus, outcome>>
    /\ UNCHANGED outsideConv

\* what the summarizer model may do
SynthOutcomes == {"json", "json_no_numbers", "text", "error"}

\* the synthesizer's own numbers when it gives any
SynthNumbers == [probability |-> <<30, 1>>, confidence |-> <<60, 1>>]

SummaryOf(o, wp, wc) ==
    CASE o = "json" ->
            [verdict |-> "model", probability |-> SynthNumbers.probability,
             confidence |-> SynthNumbers.confidence]
      [] o = "json_no_numbers" ->
            [verdict |-> "model", probability |-> wp, confidence |-> wc]
      [] o = "text" ->
            [verdict |-> "raw_summary[:500]", probability |-> wp, confidence |-> wc]
      [] OTHER ->
            [verdict |-> "Synthesis complete", probability |-> wp, confidence |-> wc]

Synthesize ==
    /\ mpc = "synth"
    /\ \E o \in SynthOutcomes :
          summary' = SummaryOf(o, weighted_probability, weighted_confidence)
    /\ synthCalled' = TRUE
    /\ mpc' = "reputation"
    /\ UNCHANGED <<question, nAgents, cache, fut, res, agent_outputs, declined_agents,
                   total_weight, weighted_probability, weighted_confidence,
                   agent_predictions, reputation_consensus, outcome>>
    /\ UNCHANGED outsideConv

\* "if not agent_output.get('declined')" and "isinstance(parsed, dict)"
EntersConsensus(r) == ~r.declined /\ r.parsed

RECURSIVE SelectPredictions(_)
SelectPredictions(outs) ==
    IF outs = <<>> THEN <<>>
    ELSE IF EntersConsensus(Head(outs))
         THEN <<Head(outs)>> \o SelectPredictions(Tail(outs))
         ELSE SelectPredictions(Tail(outs))

\* parsed.get("probability", 0.5) / parsed.get("confidence", 0.5)
OrHalf(x) == IF HasNumber(x) THEN x ELSE 50

\* final_weight = base_weight * reputation_score * confidence, where
\* base_weight = weight * domain_expertise; scaled by 10 * 10 * 100
FinalWeight(r) ==
    r.weight * DomainExpertise(r.agent) * NeutralReputation * OrHalf(r.confidence)

\* total_weight += final_weight
RECURSIVE SumFinalWeight(_)
SumFinalWeight(preds) ==
    IF preds = <<>> THEN 0
    ELSE FinalWeight(Head(preds)) + SumFinalWeight(Tail(preds))

\* sum(p["probability"] * p["final_weight"] ...)
RECURSIVE SumProbability(_)
SumProbability(preds) ==
    IF preds = <<>> THEN 0
    ELSE OrHalf(Head(preds).probability) * FinalWeight(Head(preds))
         + SumProbability(Tail(preds))

\* sum(p["confidence"] * p["final_weight"] ...)
RECURSIVE SumConfidence(_)
SumConfidence(preds) ==
    IF preds = <<>> THEN 0
    ELSE OrHalf(Head(preds).confidence) * FinalWeight(Head(preds))
         + SumConfidence(Tail(preds))

\* ReputationTracker.get_weighted_consensus
GetWeightedConsensus(preds) ==
    LET tw == SumFinalWeight(preds)
    IN IF preds = <<>>
       THEN [present |-> TRUE, consensus_probability |-> <<50, 1>>,
             consensus_confidence |-> <<0, 1>>, total_weight |-> 0]
       ELSE IF tw > 0
            THEN [present |-> TRUE,
                  consensus_probability |-> <<SumProbability(preds), tw>>,
                  consensus_confidence |-> <<SumConfidence(preds), tw>>,
                  total_weight |-> tw]
            ELSE [present |-> TRUE, consensus_probability |-> <<50, 1>>,
                  consensus_confidence |-> <<0, 1>>, total_weight |-> tw]

\* the reputation-weighted consensus replaces the weighted means
ReputationConsensus ==
    /\ mpc = "reputation"
    /\ agent_predictions' = SelectPredictions(agent_outputs)
    /\ reputation_consensus' = GetWeightedConsensus(agent_predictions')
    /\ weighted_probability' = reputation_consensus'.consensus_probability
    /\ weighted_confidence' = reputation_consensus'.consensus_confidence
    /\ mpc' = "report"
    /\ UNCHANGED <<question, nAgents, cache, fut, res, agent_outputs, declined_agents,
                   total_weight, summary, synthCalled, outcome>>
    /\ UNCHANGED outsideConv

\* the tracker or the classifier raises: "Continue with simple weighted average"
ReputationFails ==
    /\ mpc = "reputation"
    /\ mpc' = "report"
    /\ UNCHANGED <<question, nAgents, cache, fut, res, agent_outputs, declined_agents,
                   total_weight, weighted_probability, weighted_confidence,
                   summary, synthCalled, agent_predictions, reputation_consensus,
                   outcome>>
    /\ UNCHANGED outsideConv

\* the report is generated (or fails to be) and the result dict is returned
Return ==
    /\ mpc = "report"
    /\ outcome' = "complete"
    /\ mpc' = "done"
    /\ UNCHANGED <<question, nAgents, cache, fut, res, agent_outputs, declined_agents,
                   total_weight, weighted_probability, weighted_confidence,
                   summary, synthCalled, agent_predictions, reputation_consensus>>
    /\ UNCHANGED outsideConv

(***************************************************************************)
(* The response cache: agent_cache and call_agent                          *)
(***************************************************************************)
\* question texts, one character per element
Questions == {<<"Q", "a">>, <<" ", "q", "a", " ">>, <<"q", "b">>}

AgentNames == {"Analyst", "Economist"}

\* str.lower()
LowerChar(ch) == IF ch = "Q" THEN "q" ELSE ch

Lower(s) == [i \in 1..Len(s) |-> LowerChar(s[i])]

\* str.strip()
RECURSIVE LStrip(_)
LStrip(s) == IF s # <<>> /\ Head(s) = " " THEN LStrip(Tail(s)) ELSE s

RECURSIVE RStrip(_)
RStrip(s) ==
    IF s # <<>> /\ s[Len(s)] = " " THEN RStrip(SubSeq(s, 1, Len(s) - 1)) ELSE s

Strip(s) == RStrip(LStrip(s))

\* hashlib.md5(...).hexdigest(): the digest stands for the text it was made
\* from (no two of the texts above collide)
Md5(s) == <<"md5">> \o s

hash_question(q) == Md5(Strip(Lower(q)))

Keys == {<<hash_question(q), a>> : q \in Questions, a \in AgentNames}

\* a key a parsed dict does not have
Absent == "absent"

Missing == -2

\* _extract_json_block(raw): None, or the dict of the JSON object
NoParse ==
    [isDict |-> FALSE, declined |-> Absent, reason |-> Absent, analysis |-> Absent,
     probability |-> Missing, confidence |-> Missing, recommendation |-> Absent]

BriefDict(an, p, c, rec) ==
    [isDict |-> TRUE, declined |-> Absent, reason |-> Absent, analysis |-> an,
     probability |-> p, confidence |-> c, recommendation |-> rec]

DeclineDict(why) ==
    [isDict |-> TRUE, declined |-> "true", reason |-> why, analysis |-> Absent,
     probability |-> Missing, confidence |-> Missing, recommendation |-> Absent]

\* what call_model may give back for the agent prompt
ModelOutputs ==
    {[kind |-> "brief", raw |-> "raw1", parsed |-> BriefDict("rising", 80, 90, "act")],
     [kind |-> "brief", raw |-> "raw3", parsed |-> BriefDict("rising", 80, Missing, "act")],
     [kind |-> "brief", raw |-> "raw4", parsed |-> BriefDict("DECLINED", 80, 90, "act")],
     [kind |-> "decline", raw |-> "raw5", parsed |-> DeclineDict("off topic")],
     [kind |-> "error", raw |-> "", parsed |-> NoParse]}

NoRow ==
    [id |-> 0, analysis |-> "", probability |-> None, confidence |-> None,
     recommendation |-> "", raw_response |-> ""]

\* dict.get(key, default) and dict.get(key)
GetText(v, default) == IF v = Absent THEN default ELSE v

GetNumber(v) == IF v = Missing THEN None ELSE v

\* the row "INSERT INTO agent_responses" writes
Row(id, analysis, probability, confidence, recommendation, raw) ==
    [id |-> id, analysis |-> analysis, probability |-> probability,
     confidence |-> confidence, recommendation |-> recommendation,
     raw_response |-> raw]

\* the arguments call_agent passes to cache_response for a parsed dict
RowFor(id, o) ==
    IF o.parsed.declined # Absent
    THEN Row(id, "DECLINED", None, None, GetText(o.parsed.reason, ""), o.raw)
    ELSE Row(id, GetText(o.parsed.analysis, ""), GetNumber(o.parsed.probability),
             GetNumber(o.parsed.confidence),
             GetText(o.parsed.recommendation, ""), o.raw)

\* get_cached_response: the row under (hash_question(question), agent_name)
get_cached_response(t, q, a) == t[<<hash_question(q), a>>]

\* cache_response as INSERT OR REPLACE: the later row takes the place
cache_response_replace(t, q, a, row) ==
    [t EXCEPT ![<<hash_question(q), a>>] = row]

\* cache_response: INSERT; on IntegrityError the row already there is kept
cache_response(t, q, a, row) ==
    IF t[<<hash_question(q), a>>] = NoRow
    THEN [t EXCEPT ![<<hash_question(q), a>>] = row]
    ELSE t

\* the id cache_response returns
cache_response_id(t, q, a, row) ==
    IF t[<<hash_question(q), a>>] = NoRow THEN row.id
    ELSE t[<<hash_question(q), a>>].id

NoDict ==
    [agent |-> "", raw |-> "", parsed |-> NoParse, cached |-> FALSE,
     declined |-> FALSE]

\* call_agent on a cache hit
CachedDict(a, row) ==
    IF row.analysis = "DECLINED"
    THEN [agent |-> a, raw |-> row.raw_response,
          parsed |-> DeclineDict(row.recommendation),
          cached |-> TRUE, declined |-> TRUE]
    ELSE [agent |-> a, raw |-> row.raw_response,
          parsed |-> BriefDict(row.analysis, row.probability, row.confidence,
                               row.recommendation),
          cached |-> TRUE, declined |-> FALSE]

\* call_agent after the model call
FreshDict(a, o) ==
    IF o.kind = "error"
    THEN [agent |-> a, raw |-> "ERROR", parsed |-> NoParse, cached |-> FALSE,
          declined |-> FALSE]
    ELSE [agent |-> a, raw |-> o.raw, parsed |-> o.parsed, cached |-> FALSE,
          declined |-> o.parsed.isDict /\ o.parsed.declined # Absent]

\* "if parsed and isinstance(parsed, dict)": what call_agent stores
Cacheable(o) == o.kind # "error" /\ o.parsed.isDict

Callers == 1..2

NoArg == [q |-> <<>>, a |-> ""]

CacheInit ==
    /\ table = [k \in Keys |-> NoRow]
    /\ nextId = 1
    /\ origin = <<>>
    /\ cpc = [c \in Callers |-> "idle"]
    /\ carg = [c \in Callers |-> NoArg]
    /\ hadRow = [c \in Callers |-> NoRow]
    /\ modelCalled = [c \in Callers |-> FALSE]
    /\ stored = [c \in Callers |-> None]
    /\ cres = [c \in Callers |-> NoDict]
    /\ ncalls = 0

CacheIdle == CacheInit

\* call_agent(agent) starts: get_cached_response; a hit returns at once
Lookup(c, q, a) ==
    /\ cpc[c] \in {"idle", "returned"}
    /\ ncalls < MaxCalls
    /\ ncalls' = ncalls + 1
    /\ carg' = [carg EXCEPT ![c] = [q |-> q, a |-> a]]
    /\ hadRow' = [hadRow EXCEPT ![c] = get_cached_response(table, q, a)]
    /\ modelCalled' = [modelCalled EXCEPT ![c] = FALSE]
    /\ stored' = [stored EXCEPT ![c] = None]
    /\ IF cache_responses /\ get_cached_response(table, q, a) # NoRow
       THEN /\ cpc' = [cpc EXCEPT ![c] = "returned"]
            /\ cres' = [cres EXCEPT ![c] =
                           CachedDict(a, get_cached_response(table, q, a))]
       ELSE /\ cpc' = [cpc EXCEPT ![c] = "miss"]
            /\ cres' = [cres EXCEPT ![c] = NoDict]
    /\ UNCHANGED <<table, nextId, origin>>
    /\ UNCHANGED outsideCache

\* the model answers (or call_model raises); a parsed dict is stored with
\* cache_response, and call_agent returns
ModelCall(c, o) ==
    /\ cpc[c] = "miss"
    /\ LET q == carg[c].q
           a == carg[c].a
           k == <<hash_question(q), a>>
           row == RowFor(nextId, o)
           put == cache_responses /\ Cacheable(o)
           inserted == put /\ table[k] = NoRow
       IN /\ table' = IF put THEN cache_response(table, q, a, row) ELSE table
          /\ stored' = [stored EXCEPT ![c] =
                           IF put THEN cache_response_id(table, q, a, row)
                           ELSE None]
          /\ nextId' = IF inserted THEN nextId + 1 ELSE nextId
          /\ origin' = IF inserted
                       THEN Append(origin, [q |-> q, a |-> a,
                                            parsed |-> FreshDict(a, o).parsed,
                                            declined |-> FreshDict(a, o).declined])
                       ELSE origin
          /\ cres' = [cres EXCEPT ![c] = FreshDict(a, o)]
    /\ modelCalled' = [modelCalled EXCEPT ![c] = TRUE]
    /\ cpc' = [cpc EXCEPT ![c] = "returned"]
    /\ UNCHANGED <<carg, hadRow, ncalls>>
    /\ UNCHANGED outsideCache

(***************************************************************************)
(* The consensus: ReputationTracker.get_weighted_consensus                 *)
(***************************************************************************)
\* Probabilities and confidences are in percent, reputations and base
\* weights in tenths; a quotient is the pair <<numerator, denominator>>.
\* None stands for a null value (or any other non-number).
IsNumber(x) == x >= 0

Abs(x) == IF x < 0 THEN 0 - x ELSE x

\* an element of agent_predictions
Prediction(name, p, c, w) ==
    [agent_name |-> name, probability |-> p, confidence |-> c, weight |-> w]

\* reputation_score: calculate_agent_reputation, or 1.0 without reputation
ReputationScore(pred, rep, use_reputation) ==
    IF use_reputation THEN rep[pred.agent_name] ELSE 10

\* final_weight = base_weight * reputation_score * confidence
final_weight(pred, rep, use_reputation) ==
    pred.weight * ReputationScore(pred, rep, use_reputation) * pred.confidence

\* total_weight += final_weight
RECURSIVE TotalFinalWeight(_, _, _)
TotalFinalWeight(preds, rep, use_reputation) ==
    IF preds = <<>> THEN 0
    ELSE final_weight(Head(preds), rep, use_reputation)
         + TotalFinalWeight(Tail(preds), rep, use_reputation)

\* sum(p["probability"] * p["final_weight"] for p in weighted_predictions)
RECURSIVE WeightedProbabilitySum(_, _, _)
WeightedProbabilitySum(preds, rep, use_reputation) ==
    IF preds = <<>> THEN 0
    ELSE Head(preds).probability * final_weight(Head(preds), rep, use_reputation)
         + WeightedProbabilitySum(Tail(preds), rep, use_reputation)

\* sum(p["confidence"] * p["final_weight"] for p in weighted_predictions)
RECURSIVE WeightedConfidenceSum(_, _, _)
WeightedConfidenceSum(preds, rep, use_reputation) ==
    IF preds = <<>> THEN 0
    ELSE Head(preds).confidence * final_weight(Head(preds), rep, use_reputation)
         + WeightedConfidenceSum(Tail(preds), rep, use_reputation)

\* consensus_range = 0.2
consensus_range == 20

\* "abs(...) >= consensus_range"
DissentsAtRange(pred, cp) ==
    Abs(pred.probability * cp[2] - cp[1]) >= consensus_range * cp[2]

\* "if abs(pred['probability'] - consensus_probability) > consensus_range"
Dissents(pred, cp) ==
    Abs(pred.probability * cp[2] - cp[1]) > consensus_range * cp[2]

\* dissent_count
RECURSIVE DissentCount(_, _)
DissentCount(preds, cp) ==
    IF preds = <<>> THEN 0
    ELSE (IF Dissents(Head(preds), cp) THEN 1 ELSE 0) + DissentCount(Tail(preds), cp)

\* "requires_review": dissent_percentage > 0.4
RequiresReview(count, n) == 5 * count > 2 * n

\* the arithmetic raises TypeError on a value that is not a number
RaisesTypeError(preds) ==
    \E i \in 1..Len(preds) :
        ~IsNumber(preds[i].confidence) \/ ~IsNumber(preds[i].probability)

NoConsensus ==
    [present |-> FALSE, consensus_probability |-> <<0, 0>>,
     consensus_confidence |-> <<0, 0>>, total_weight |-> 0,
     dissent_count |-> 0, count |-> 0, requires_review |-> FALSE]

\* the dict get_weighted_consensus returns (present = FALSE: it raised)
get_weighted_consensus(preds, rep, use_reputation) ==
    IF preds = <<>>
    THEN [present |-> TRUE, consensus_probability |-> <<50, 1>>,
          consensus_confidence |-> <<0, 1>>, total_weight |-> 0,
          dissent_count |-> 0, count |-> 0, requires_review |-> FALSE]
    ELSE IF RaisesTypeError(preds) THEN NoConsensus
    ELSE LET tw == TotalFinalWeight(preds, rep, use_reputation)
             cp == IF tw > 0
                   THEN <<WeightedProbabilitySum(preds, rep, use_reputation), tw>>
                   ELSE <<50, 1>>
             cc == IF tw > 0
                   THEN <<WeightedConfidenceSum(preds, rep, use_reputation), tw>>
                   ELSE <<0, 1>>
             dc == DissentCount(preds, cp)
         IN [present |-> TRUE, consensus_probability |-> cp,
             consensus_confidence |-> cc, total_weight |-> tw,
             dissent_count |-> dc, count |-> Len(preds),
             requires_review |-> RequiresReview(dc, Len(preds))]

(***************************************************************************)
(* The weights of the consensus: run_conversation and DomainAwareConsensus *)
(***************************************************************************)
\* DOMAIN_EXPERTISE_MATRIX (a part of it), in tenths
DOMAIN_EXPERTISE_MATRIX ==
    [a \in {"Macro Risk Forecaster", "Energy & Resource Forecaster", "Chaos Agent"} |->
        CASE a = "Macro Risk Forecaster" ->
                 ("financial" :> 9 @@ "geopolitical" :> 8 @@ "general" :> 7)
          [] a = "Energy & Resource Forecaster" ->
                 ("energy" :> 10 @@ "environmental" :> 7 @@ "general" :> 6)
          [] OTHER -> ("general" :> 5)]

\* get_domain_expertise(agent_name, domain)
get_domain_expertise(a, domain) ==
    IF a \notin DOMAIN DOMAIN_EXPERTISE_MATRIX THEN 7
    ELSE IF domain \in DOMAIN DOMAIN_EXPERTISE_MATRIX[a]
         THEN DOMAIN_EXPERTISE_MATRIX[a][domain]
         ELSE IF "general" \in DOMAIN DOMAIN_EXPERTISE_MATRIX[a]
              THEN DOMAIN_EXPERTISE_MATRIX[a]["general"]
              ELSE 7

\* DomainClassifier.EXPERT_DOMAINS (a part of it)
EXPERT_DOMAINS ==
    [a \in {"Macro Risk Forecaster", "Energy & Resource Forecaster", "Chaos Agent"} |->
        CASE a = "Macro Risk Forecaster" -> {"geopolitical", "financial"}
          [] a = "Energy & Resource Forecaster" -> {"energy"}
          [] OTHER -> {}]

\* EXPERT_DOMAINS.get(agent_name, [])
ExpertDomains(a) == IF a \in DOMAIN EXPERT_DOMAINS THEN EXPERT_DOMAINS[a] ELSE {}

\* DomainAwareConsensus._calculate_agent_relevance, in tenths
calculate_agent_relevance(cls, a) ==
    IF ExpertDomains(a) = {} THEN 8
    ELSE IF cls.primary_domain \in ExpertDomains(a) THEN 15
    ELSE IF \E i \in 1..Len(cls.secondary_domains) :
                cls.secondary_domains[i] \in ExpertDomains(a) THEN 12
    ELSE 6

\* the agents of the panel, in the order of the configuration, and their
\* configured weight and their reputation (tenths)
ConsensusAgents ==
    <<"Macro Risk Forecaster", "Energy & Resource Forecaster", "Chaos Agent", "Guest Analyst">>

ConfiguredWeight(a) == IF a = "Energy & Resource Forecaster" THEN 2 ELSE 1

Reputation ==
    [a \in {ConsensusAgents[i] : i \in 1..Len(ConsensusAgents)} |->
        IF a = "Energy & Resource Forecaster" THEN 8 ELSE 5]

\* the classifications run_conversation may get for a question
Classifications ==
    {[primary_domain |-> "energy", secondary_domains |-> <<>>],
     [primary_domain |-> "financial", secondary_domains |-> <<"energy">>],
     [primary_domain |-> "military", secondary_domains |-> <<"geopolitical">>]}

\* the probability and the confidence of a brief, in percent
BriefProbabilities == {10, 50, 90}

BriefConfidences == {0, 50, 90}

\* agent_outputs: the briefs of some agents of the panel, in panel order
RECURSIVE OutputLists(_)
OutputLists(i) ==
    IF i > Len(ConsensusAgents) THEN {<<>>}
    ELSE LET rest == OutputLists(i + 1)
         IN rest \cup
            {<<[agent |-> ConsensusAgents[i], probability |-> p, confidence |-> c]>> \o r :
                p \in BriefProbabilities, c \in BriefConfidences, r \in rest}

AgentOutputLists == {l \in OutputLists(1) : Len(l) <= MaxPredictions}

\* agent_predictions.append({... "weight": weight * domain_expertise})
PredictionsFor(outs, cls) ==
    [i \in 1..Len(outs) |->
        Prediction(outs[i].agent, outs[i].probability, outs[i].confidence,
                   ConfiguredWeight(outs[i].agent)
                       * get_domain_expertise(outs[i].agent, cls.primary_domain))]

\* "final_weight" of every element of weighted_predictions
FinalWeights(preds, rep) == [i \in 1..Len(preds) |-> final_weight(preds[i], rep, TRUE)]

NotAggregated ==
    [done |-> FALSE, predictions |-> <<>>, final_weights |-> <<>>,
     result |-> NoConsensus]

ConsensusInit ==
    /\ cinput \in [outs : AgentOutputLists, classification : Classifications]
    /\ consensus = NotAggregated

ConsensusIdle ==
    /\ cinput = [outs |-> <<>>, classification |-> [primary_domain |-> "", secondary_domains |-> <<>>]]
    /\ consensus = NotAggregated

\* the reputation-weighted consensus of run_conversation
Aggregate ==
    /\ cinput.classification.primary_domain # ""
    /\ ~consensus.done
    /\ LET preds == PredictionsFor(cinput.outs, cinput.classification)
       IN consensus' =
            [done |-> TRUE, predictions |-> preds,
             final_weights |-> FinalWeights(preds, Reputation),
             result |-> get_weighted_consensus(preds, Reputation, TRUE)]
    /\ UNCHANGED cinput
    /\ UNCHANGED outsideConsensus

(***************************************************************************)
(* ReputationTracker.calculate_agent_reputation                            *)
(***************************************************************************)
\* Accuracies, confidences and scores are in percent; a score is the
\* quotient <<numerator, denominator>>. A row of the query of
\* calculate_agent_reputation is of a kind: its accuracy_score, its
\* confidence and whether its timestamp is within the last 30 days. The
\* rows are a bag: a function from the kinds to the number of rows.
RowKind(acc, conf, rec) == [accuracy |-> acc, confidence |-> conf, recent |-> rec]

\* what a sum over the rows adds for one row of kind k
Measure(k, what) ==
    CASE what = "count" -> 1
      [] what = "accuracy" -> k.accuracy
      [] what = "recent" -> IF k.recent THEN 1 ELSE 0
      [] what = "recent_accuracy" -> IF k.recent THEN k.accuracy ELSE 0
      [] OTHER -> Abs(k.accuracy - k.confidence)

RECURSIVE BagSum(_, _, _)
BagSum(b, S, what) ==
    IF S = {} THEN 0
    ELSE LET k == CHOOSE x \in S : TRUE
         IN b[k] * Measure(k, what) + BagSum(b, S \ {k}, what)

\* total = len(rows)
TotalRows(b) == BagSum(b, DOMAIN b, "count")

\* the sample size below which the score is blended with 0.5
SampleThreshold == 10

\* the fresh score with a recent_accuracy of 0.5 when no row is recent
FreshReputationNoFallback(b) ==
    LET total == TotalRows(b)
        acc == BagSum(b, DOMAIN b, "accuracy")
        nrecent == BagSum(b, DOMAIN b, "recent")
        rnum == IF nrecent > 0 THEN BagSum(b, DOMAIN b, "recent_accuracy") ELSE 50
        rden == IF nrecent > 0 THEN nrecent ELSE 1
        err == BagSum(b, DOMAIN b, "error")
        num == 5 * acc * rden + 3 * rnum * total + 2 * (100 * total - err) * rden
        den == 10 * total * rden
    IN IF total = 0 THEN <<50, 1>>
       ELSE IF total < SampleThreshold
            THEN <<num * total + 50 * (10 - total) * den, 10 * den>>
            ELSE <<num, den>>

\* reputation_score of "Calculate fresh score": 0.5 without rows, else
\* base_accuracy * 0.5 + recent_accuracy * 0.3 + calibration_score * 0.2,
\* with the sample size penalty below 10 rows
FreshReputation(b) ==
    LET total == TotalRows(b)
        acc == BagSum(b, DOMAIN b, "accuracy")
        nrecent == BagSum(b, DOMAIN b, "recent")
        rnum == IF nrecent > 0 THEN BagSum(b, DOMAIN b, "recent_accuracy") ELSE acc
        rden == IF nrecent > 0 THEN nrecent ELSE total
        err == BagSum(b, DOMAIN b, "error")
        num == 5 * acc * rden + 3 * rnum * total + 2 * (100 * total - err) * rden
        den == 10 * total * rden
    IN IF total = 0 THEN <<50, 1>>
       ELSE IF total < SampleThreshold
            THEN <<num * total + 50 * (10 - total) * den, 10 * den>>
            ELSE <<num, den>>

\* the kinds of verified predictions of the agent in the domain
RowKinds ==
    {RowKind(acc[1], acc[2], rec) : acc \in {<<100, 100>>, <<0, 100>>}, rec \in BOOLEAN}
        \cup {RowKind(75, 50, FALSE)}

NoRows == [k \in RowKinds |-> 0]

\* no row in reputation_cache (rows_at: the rows the cached score was
\* computed from)
NoCache ==
    [present |-> FALSE, reputation_score |-> <<0, 1>>, sample_size |-> 0,
     fresh |-> FALSE, rows_at |-> NoRows]

NotCalled == [called |-> FALSE, score |-> <<0, 1>>, cached |-> FALSE, rows_used |-> NoRows]

ReputationInit ==
    /\ verified = NoRows
    /\ rep_cache = NoCache
    /\ rep_result = NotCalled

ReputationIdle == ReputationInit

\* record_outcome for one more prediction of the agent in the domain: the
\* prediction becomes a row of the query, the cache row is deleted
RecordVerified(k) ==
    /\ TotalRows(verified) < MaxVerified
    /\ verified' = [verified EXCEPT ![k] = @ + 1]
    /\ rep_cache' = NoCache
    /\ rep_result' = NotCalled
    /\ UNCHANGED outsideReputation

\* time passes: the timestamp of a row falls behind recent_cutoff
RowAges(k) ==
    /\ k.recent
    /\ verified[k] > 0
    /\ verified' = [verified EXCEPT ![k] = @ - 1,
                                    ![RowKind(k.accuracy, k.confidence, FALSE)] = @ + 1]
    /\ rep_result' = NotCalled
    /\ UNCHANGED rep_cache
    /\ UNCHANGED outsideReputation

\* time passes: last_updated of the cache row is 24 hours ago
CacheExpires ==
    /\ rep_cache.present
    /\ rep_cache.fresh
    /\ rep_cache' = [rep_cache EXCEPT !.fresh = FALSE]
    /\ rep_result' = NotCalled
    /\ UNCHANGED verified
    /\ UNCHANGED outsideReputation

\* calculate_agent_reputation(agent_name, domain, use_cache)
CalculateReputation(use_cache) ==
    /\ IF use_cache /\ rep_cache.present /\ rep_cache.fresh
       THEN /\ rep_result' = [called |-> TRUE, score |-> rep_cache.reputation_score,
                              cached |-> TRUE, rows_used |-> rep_cache.rows_at]
            /\ UNCHANGED rep_cache
       ELSE /\ rep_result' = [called |-> TRUE, score |-> FreshReputation(verified),
                              cached |-> FALSE, rows_used |-> verified]
            /\ IF TotalRows(verified) = 0
               THEN UNCHANGED rep_cache
               ELSE rep_cache' =
                        [present |-> TRUE, reputation_score |-> FreshReputation(verified),
                         sample_size |-> TotalRows(verified), fresh |-> TRUE,
                         rows_at |-> verified]
    /\ UNCHANGED verified
    /\ UNCHANGED outsideReputation

(***************************************************************************)
(* ReputationTracker: recording predictions and outcomes                   *)
(***************************************************************************)
PredictionIds == 1..MaxIds

\* the domains of the predictions of the one agent of this model
TrackedDomains == {"energy", "financial"}

\* the confidence every prediction is recorded with, in percent
RecordedConfidence == 90

NoPrediction ==
    [exists |-> FALSE, domain |-> "", confidence |-> None, outcome |-> "NULL",
     accuracy_score |-> None, recent |-> FALSE]

\* the row record_prediction inserts: no outcome yet, timestamp now
NewPrediction(domain, confidence) ==
    [exists |-> TRUE, domain |-> domain, confidence |-> confidence,
     outcome |-> "NULL", accuracy_score |-> None, recent |-> TRUE]

\* an UPDATE that keeps the outcome a row already has
WithFirstOutcome(row, o, acc) ==
    IF row.outcome # "NULL" THEN row
    ELSE [row EXCEPT !.outcome = o, !.accuracy_score = acc]

\* "UPDATE predictions SET outcome = ?, accuracy_score = ? ... WHERE id = ?"
WithOutcome(row, o, acc) == [row EXCEPT !.outcome = o, !.accuracy_score = acc]

\* the rows of "WHERE agent_name = ? AND outcome IS NOT NULL AND domain = ?"
VerifiedIds(preds, domain) ==
    {id \in PredictionIds :
        /\ preds[id].exists
        /\ preds[id].domain = domain
        /\ preds[id].outcome # "NULL"}

KindOf(row) == RowKind(row.accuracy_score, row.confidence, row.recent)

\* those rows as a bag of kinds
BagOf(preds, domain) ==
    [k \in {KindOf(preds[id]) : id \in VerifiedIds(preds, domain)} |->
        Cardinality({id \in VerifiedIds(preds, domain) : KindOf(preds[id]) = k})]

\* validate_prediction: accuracy_score = 1 - (predicted_probability -
\* actual_value) ** 2, in percent
BrierAccuracy(p, actual) ==
    LET actual_value == IF actual THEN 100 ELSE 0
    IN 100 - ((p - actual_value) * (p - actual_value)) \div 100

\* validate_prediction: the outcome classification
OutcomeClass(p, actual) ==
    IF (p > 50) = actual
    THEN IF BrierAccuracy(p, actual) > 80 THEN "correct" ELSE "partial"
    ELSE "incorrect"

NoScore == [present |-> FALSE, reputation_score |-> <<0, 1>>, sample_size |-> 0, fresh |-> FALSE]

NoOp ==
    [op |-> "none", id |-> 0, raised |-> FALSE, existed |-> FALSE, had |-> FALSE,
     same |-> FALSE, sizeBefore |-> 0, sizeAfter |-> 0,
     scoreBefore |-> <<0, 1>>, scoreAfter |-> <<0, 1>>,
     outcome |-> "NULL", accuracy_score |-> None,
     storedOutcome |-> "NULL", storedAccuracy |-> None]

OutcomeInit ==
    /\ predictions = [id \in PredictionIds |-> NoPrediction]
    /\ score_cache = [d \in TrackedDomains |-> NoScore]
    /\ outcomeIds = {}
    /\ lastOp = NoOp

OutcomeIdle ==
    /\ predictions = <<>>
    /\ score_cache = <<>>
    /\ outcomeIds = {}
    /\ lastOp = NoOp

\* record_prediction: the INSERT raises IntegrityError on an id in the table
RecordPrediction(id, domain) ==
    /\ predictions # <<>>
    /\ IF predictions[id].exists
       THEN /\ lastOp' = [NoOp EXCEPT !.op = "record_prediction", !.id = id,
                                      !.raised = TRUE, !.existed = TRUE]
            /\ UNCHANGED predictions
       ELSE /\ predictions' =
                  [predictions EXCEPT ![id] = NewPrediction(domain, RecordedConfidence)]
            /\ lastOp' = [NoOp EXCEPT !.op = "record_prediction", !.id = id]
    /\ UNCHANGED <<score_cache, outcomeIds>>
    /\ UNCHANGED outsideOutcome

\* what record_outcome(prediction_id, outcome, accuracy_score) does to the
\* state: the UPDATE, and the DELETE of the cache row of the prediction's
\* agent and domain
ApplyOutcome(id, o, acc) ==
    IF predictions[id].exists
    THEN LET row == predictions[id]
             after == [predictions EXCEPT ![id] = WithOutcome(row, o, acc)]
         IN /\ predictions' = after
            /\ score_cache' = [score_cache EXCEPT ![row.domain] = NoScore]
            /\ outcomeIds' = outcomeIds \cup {id}
            /\ lastOp' =
                 [op |-> "record_outcome", id |-> id, raised |-> FALSE, existed |-> TRUE,
                  had |-> row.outcome # "NULL",
                  same |-> row.outcome = o /\ row.accuracy_score = acc,
                  sizeBefore |-> Cardinality(VerifiedIds(predictions, row.domain)),
                  sizeAfter |-> Cardinality(VerifiedIds(after, row.domain)),
                  scoreBefore |-> FreshReputation(BagOf(predictions, row.domain)),
                  scoreAfter |-> FreshReputation(BagOf(after, row.domain)),
                  outcome |-> o, accuracy_score |-> acc,
                  storedOutcome |-> after[id].outcome,
                  storedAccuracy |-> after[id].accuracy_score]
    ELSE /\ lastOp' = [NoOp EXCEPT !.op = "record_outcome", !.id = id,
                                   !.outcome = o, !.accuracy_score = acc]
         /\ UNCHANGED <<predictions, score_cache, outcomeIds>>

\* record_outcome, called directly
RecordOutcome(id, o, acc) ==
    /\ predictions # <<>>
    /\ ApplyOutcome(id, o, acc)
    /\ UNCHANGED outsideOutcome

\* validate_prediction(prediction_id, predicted_probability, ..., actual_outcome)
ValidatePrediction(id, p, actual) ==
    /\ predictions # <<>>
    /\ ApplyOutcome(id, OutcomeClass(p, actual), BrierAccuracy(p, actual))
    /\ UNCHANGED outsideOutcome

\* time passes: last_updated of a cache row is 24 hours ago
ScoreExpires(domain) ==
    /\ predictions # <<>>
    /\ score_cache[domain].present
    /\ score_cache[domain].fresh
    /\ score_cache' = [score_cache EXCEPT ![domain].fresh = FALSE]
    /\ lastOp' = NoOp
    /\ UNCHANGED <<predictions, outcomeIds>>
    /\ UNCHANGED outsideOutcome

\* calculate_agent_reputation(agent_name, domain)
ScoreAgent(domain) ==
    /\ predictions # <<>>
    /\ LET b == BagOf(predictions, domain)
       IN IF score_cache[domain].present /\ score_cache[domain].fresh
          THEN /\ lastOp' = [NoOp EXCEPT !.op = "calculate",
                                         !.scoreAfter = score_cache[domain].reputation_score]
               /\ UNCHANGED score_cache
          ELSE /\ lastOp' = [NoOp EXCEPT !.op = "calculate",
                                         !.scoreAfter = FreshReputation(b)]
               /\ IF TotalRows(b) = 0
                  THEN UNCHANGED score_cache
                  ELSE score_cache' =
                         [score_cache EXCEPT ![domain] =
                            [present |-> TRUE, reputation_score |-> FreshReputation(b),
                             sample_size |-> TotalRows(b), fresh |-> TRUE]]
    /\ UNCHANGED <<predictions, outcomeIds>>
    /\ UNCHANGED outsideOutcome

(***************************************************************************)
(* run_conversation, run after run on one response cache                   *)
(***************************************************************************)
\* the configured panel: load_agent_profiles
Panel == AgentNames

\* agent.get("weight", 1.0)
PanelWeight(a) == IF a = "Analyst" THEN 1 ELSE 2

\* get_domain_expertise(agent_name, primary_domain), in tenths: the agents
\* of this panel are not in DOMAIN_EXPERTISE_MATRIX
PanelExpertise(a) == get_domain_expertise(a, "energy")

\* calculate_agent_reputation while no prediction has been verified
PanelReputation == [a \in AgentNames |-> NeutralReputation]

\* call_agent: the dict it returns
CallAgentDict(t, q, a, o) ==
    IF cache_responses /\ get_cached_response(t, q, a) # NoRow
    THEN CachedDict(a, get_cached_response(t, q, a))
    ELSE FreshDict(a, o)

\* call_agent: whether it inserts a row
CallAgentInserts(t, q, a, o) ==
    /\ cache_responses
    /\ get_cached_response(t, q, a) = NoRow
    /\ Cacheable(o)

\* total_weight += weight, for every result that did not decline
RECURSIVE SimpleTotalWeight(_)
SimpleTotalWeight(outs) ==
    IF outs = <<>> THEN 0
    ELSE PanelWeight(Head(outs).agent) + SimpleTotalWeight(Tail(outs))

\* weighted_probability += prob * weight, when prob is a number
RECURSIVE SimpleProbabilitySum(_)
SimpleProbabilitySum(outs) ==
    IF outs = <<>> THEN 0
    ELSE (IF Head(outs).parsed.isDict /\ IsNumber(Head(outs).parsed.probability)
          THEN Head(outs).parsed.probability * PanelWeight(Head(outs).agent)
          ELSE 0)
         + SimpleProbabilitySum(Tail(outs))

\* "if total_weight > 0: weighted_probability = weighted_probability / total_weight"
SimpleMean(outs) ==
    IF SimpleTotalWeight(outs) > 0
    THEN <<SimpleProbabilitySum(outs), SimpleTotalWeight(outs)>>
    ELSE <<0, 1>>

\* parsed.get(key, 0.5)
GetOrHalf(v) == IF v = Missing THEN 50 ELSE v

\* agent_predictions: one element per output whose parsed is a dict
RECURSIVE AgentPredictions(_)
AgentPredictions(outs) ==
    IF outs = <<>> THEN <<>>
    ELSE (IF Head(outs).parsed.isDict
          THEN <<Prediction(Head(outs).agent,
                            GetOrHalf(Head(outs).parsed.probability),
                            GetOrHalf(Head(outs).parsed.confidence),
                            PanelWeight(Head(outs).agent)
                                * PanelExpertise(Head(outs).agent))>>
          ELSE <<>>)
         \o AgentPredictions(Tail(outs))

\* the "Calculate reputation-weighted consensus" block: reputation_consensus
\* stays None when the classifier or the tracker raises
RunConsensus(outs, ok) ==
    IF ok THEN get_weighted_consensus(AgentPredictions(outs), PanelReputation, TRUE)
    ELSE NoConsensus

\* weighted_probability at the end of the run
RunProbability(outs, ok) ==
    IF RunConsensus(outs, ok).present
    THEN RunConsensus(outs, ok).consensus_probability
    ELSE SimpleMean(outs)

RepeatInit ==
    /\ rquestion \in Questions
    /\ classified \in BOOLEAN
    /\ pending = Panel
    /\ routs = <<>>
    /\ rdeclined = <<>>
    /\ runs = <<>>

RepeatIdle ==
    /\ rquestion = <<>>
    /\ classified = FALSE
    /\ pending = {}
    /\ routs = <<>>
    /\ rdeclined = <<>>
    /\ runs = <<>>

\* the future of agent a completes and the collecting loop takes it:
\* call_agent (lookup, model call, cache_response) and the loop body
DispatchAgent(a, o) ==
    /\ a \in pending
    /\ pending' = pending \ {a}
    /\ LET d == CallAgentDict(table, rquestion, a, o)
           ins == CallAgentInserts(table, rquestion, a, o)
       IN /\ table' = IF ins
                      THEN cache_response(table, rquestion, a, RowFor(nextId, o))
                      ELSE table
          /\ nextId' = IF ins THEN nextId + 1 ELSE nextId
          /\ origin' = IF ins
                       THEN Append(origin, [q |-> rquestion, a |-> a,
                                            parsed |-> d.parsed,
                                            declined |-> d.declined])
                       ELSE origin
          /\ routs' = IF d.declined THEN routs ELSE Append(routs, d)
          /\ rdeclined' = IF d.declined THEN Append(rdeclined, d) ELSE rdeclined
    /\ UNCHANGED <<rquestion, classified, runs>>
    /\ UNCHANGED <<cpc, carg, hadRow, modelCalled, stored, cres, ncalls>>
    /\ UNCHANGED outsideRepeat

\* every future is collected: the means, the reputation-weighted consensus,
\* and the returned dict
FinishRun ==
    /\ pending = {}
    /\ Len(runs) < MaxRuns
    /\ Len(routs) + Len(rdeclined) = Cardinality(Panel)
    /\ runs' = Append(runs,
                  [agents |-> routs,
                   declined_agents |-> rdeclined,
                   weighted_probability |-> RunProbability(routs, classified),
                   reputation_consensus |-> RunConsensus(routs, classified)])
    /\ routs' = <<>>
    /\ rdeclined' = <<>>
    /\ UNCHANGED <<rquestion, classified, pending>>
    /\ UNCHANGED <<table, nextId, origin, cpc, carg, hadRow, modelCalled, stored,
                   cres, ncalls>>
    /\ UNCHANGED outsideRepeat

\* run_conversation is called again with the same question
StartRun ==
    /\ pending = {}
    /\ runs # <<>>
    /\ Len(runs) < MaxRuns
    /\ routs = <<>>
    /\ rdeclined = <<>>
    /\ pending' = Panel
    /\ UNCHANGED <<rquestion, classified, routs, rdeclined, runs>>
    /\ UNCHANGED <<table, nextId, origin, cpc, carg, hadRow, modelCalled, stored,
                   cres, ncalls>>
    /\ UNCHANGED outsideRepeat

(***************************************************************************)
(* DomainClassifier.classify                                               *)
(***************************************************************************)
\* the keys of DOMAIN_PATTERNS, in the order of the dict (a part of them)
Domains == <<"military", "financial", "energy", "climate", "geopolitical">>

DomainIds == 1..Len(Domains)

\* domain_scores after the counting loop: "domain_scores[domain] += matches"
\* creates the key of every domain, matched or not
DomainScores(cnt) == [d \in DomainIds |-> cnt[d]]

\* "if not domain_scores"
NoScores(ds) == DOMAIN ds = {}

\* d comes before e in sorted(..., key = score, reverse = True): the sort is
\* stable, equal scores keep the order of the dict
Before(ds, d, e) == ds[d] > ds[e] \/ (ds[d] = ds[e] /\ d < e)

\* sorted_domains: the domains in descending order of score
RECURSIVE SortedFrom(_, _)
SortedFrom(ds, rest) ==
    IF rest = {} THEN <<>>
    ELSE LET first == CHOOSE d \in rest : \A e \in rest \ {d} : Before(ds, d, e)
         IN <<first>> \o SortedFrom(ds, rest \ {first})

SortedDomains(ds) == SortedFrom(ds, DOMAIN ds)

\* sum(domain_scores.values())
RECURSIVE SumScores(_, _)
SumScores(ds, rest) ==
    IF rest = {} THEN 0
    ELSE LET d == CHOOSE x \in rest : TRUE
         IN ds[d] + SumScores(ds, rest \ {d})

TotalScore(ds) == SumScores(ds, DOMAIN ds)

\* a threshold of 10% of the primary score
QualifiesTenth(score, primary_score) == 10 * score >= primary_score

\* "if score >= secondary_threshold", secondary_threshold = primary_score * 0.2
\* (an integer score compares with the float product as with the exact one)
Qualifies(score, primary_score) == 5 * score >= primary_score

\* the domains of sorted_domains[1:] that pass the threshold, in order
RECURSIVE SelectSecondary(_, _, _)
SelectSecondary(ds, sorted, primary_score) ==
    IF sorted = <<>> THEN <<>>
    ELSE (IF Qualifies(ds[Head(sorted)], primary_score)
          THEN <<Head(sorted)>> ELSE <<>>)
         \o SelectSecondary(ds, Tail(sorted), primary_score)

\* secondary_domains[:2]
FirstTwo(s) == SubSeq(s, 1, Min(2, Len(s)))

ClassifyRaised ==
    [raised |-> TRUE, primary_domain |-> "", confidence |-> <<0, 0>>,
     secondary_domains |-> <<>>]

NotClassified ==
    [raised |-> FALSE, primary_domain |-> "", confidence |-> <<0, 0>>,
     secondary_domains |-> <<>>]

\* DomainClassifier.classify, from the match counts of the question
classify(cnt) ==
    LET ds == DomainScores(cnt)
        sorted == SortedDomains(ds)
        total == TotalScore(ds)
        primary == Head(sorted)
        secondary == SelectSecondary(ds, Tail(sorted), ds[primary])
    IN IF NoScores(ds)
       THEN [raised |-> FALSE, primary_domain |-> "geopolitical",
             confidence |-> <<3, 10>>, secondary_domains |-> <<>>]
       ELSE IF secondary # <<>> /\ total = 0
            THEN ClassifyRaised   \* "score / total_score": ZeroDivisionError
            ELSE [raised |-> FALSE,
                  primary_domain |-> Domains[primary],
                  confidence |-> IF total > 0 THEN <<ds[primary], total>>
                                 ELSE <<1, 2>>,
                  secondary_domains |->
                      FirstTwo([i \in 1..Len(secondary) |->
                                  [domain |-> Domains[secondary[i]],
                                   score |-> <<ds[secondary[i]], total>>]])]

ClassifyInit ==
    /\ counts \in [DomainIds -> 0..MaxCount]
    /\ classification = NotClassified

ClassifyIdle ==
    /\ counts = <<>>
    /\ classification = NotClassified

\* classifier.classify(question)
Classify ==
    /\ counts # <<>>
    /\ classification = NotClassified
    /\ classification' = classify(counts)
    /\ UNCHANGED counts
    /\ UNCHANGED outsideClassify

(***************************************************************************)
(* MetaAnalystAgent.assess_analysis_quality                                *)
(***************************************************************************)
\* A dimension score is in fifths, a weight in percent, so a depth score is
\* in units of 1/500. The analysed text is what the patterns find in it:
\* the hits of each dimension, whether it has at most 150 characters,
\* whether it has a line break inside, and the red flags other than the
\* one for length that match it.
Dimensions ==
    <<"evidence_based", "causal_reasoning", "uncertainty_handling",
      "counterarguments", "specifics", "temporal_reasoning">>

DimensionIds == 1..Len(Dimensions)

\* DEPTH_WEIGHTS, in percent
DEPTH_WEIGHTS == <<25, 20, 15, 15, 15, 10>>

\* requery_threshold = 0.6
requery_threshold == 300

\* max_follow_ups = 3
max_follow_ups == 3

TooShort == "Response too short (<150 chars)"

OneWord == "One-word answer"

Vague == "Vague cop-out without specifics"

OverGeneral == "Overgeneralization without evidence"

\* the descriptions of SUPERFICIAL_INDICATORS after the first
OtherFlags ==
    {OneWord, Vague, "Dismissive without analysis", OverGeneral,
     "Deflection without using available context"}

\* "^.{0,150}$" matches a text of at most 150 characters without a line
\* break inside ("." matches no line break)
MatchesTooShort(short, multiline) == short /\ ~multiline

\* red_flags
RedFlags(in) ==
    (IF MatchesTooShort(in.short, in.multiline) THEN {TooShort} ELSE {}) \cup in.flags

\* scores[dimension] = min(1.0, count / 5.0)
DimensionScore(count) == IF count >= 5 THEN 5 ELSE count

\* sum(scores[dim] * weight for dim, weight in DEPTH_WEIGHTS.items())
RECURSIVE WeightedDepth(_, _)
WeightedDepth(hits, d) ==
    IF d = 0 THEN 0
    ELSE DimensionScore(hits[d]) * DEPTH_WEIGHTS[d] + WeightedDepth(hits, d - 1)

\* a penalty without the cap of 0.3
PenaltyUncapped(nflags) == 50 * nflags

\* penalty = min(0.3, len(red_flags) * 0.1)
Penalty(nflags) == IF 50 * nflags > 150 THEN 150 ELSE 50 * nflags

\* depth_score = max(0.0, depth_score - penalty)
DepthScore(hits, nflags) ==
    IF WeightedDepth(hits, Len(Dimensions)) - Penalty(nflags) < 0 THEN 0
    ELSE WeightedDepth(hits, Len(Dimensions)) - Penalty(nflags)

\* needs_requery = depth_score < self.requery_threshold or len(red_flags) >= 2
NeedsRequery(depth, nflags) == depth < requery_threshold \/ nflags >= 2

\* sorted(scores.items(), key=lambda x: x[1])[:3]: the three dimensions
\* that come first by score, in the order of the dict among equals
WeakDimensions(hits) ==
    {d \in DimensionIds :
        Cardinality({e \in DimensionIds :
            \/ DimensionScore(hits[e]) < DimensionScore(hits[d])
            \/ (DimensionScore(hits[e]) = DimensionScore(hits[d]) /\ e < d)}) < 3}

\* _generate_follow_ups: how many questions it returns; one for each of the
\* weak dimensions with a score below 0.4, one for a text too short, one
\* for a vague or general one
generate_follow_ups(hits, flags) ==
    Cardinality({d \in WeakDimensions(hits) : DimensionScore(hits[d]) < 2})
        + (IF TooShort \in flags THEN 1 ELSE 0)
        + (IF Vague \in flags \/ OverGeneral \in flags THEN 1 ELSE 0)

\* follow_up_questions[:self.max_follow_ups]
Truncate(n, limit) == IF n > limit THEN limit ELSE n

NotAssessed ==
    [assessed |-> FALSE, scores |-> <<>>, depth_score |-> 0, red_flags |-> {},
     needs_requery |-> FALSE, follow_up_questions |-> 0]

\* the AnalysisQualityScore of a text
assess_analysis_quality(in) ==
    LET flags == RedFlags(in)
        depth == DepthScore(in.hits, Cardinality(flags))
        needs == NeedsRequery(depth, Cardinality(flags))
    IN [assessed |-> TRUE,
        scores |-> [d \in DimensionIds |-> DimensionScore(in.hits[d])],
        depth_score |-> depth,
        red_flags |-> flags,
        needs_requery |-> needs,
        follow_up_questions |->
            IF needs THEN Truncate(generate_follow_ups(in.hits, flags), max_follow_ups)
            ELSE 0]

\* the numbers of hits of a dimension the texts of the model have
HitCounts == {0, 2, 5, MaxHits}

\* a one-word answer is short, on one line and matches nothing else
TextInputs ==
    {in \in [hits : [DimensionIds -> HitCounts], short : BOOLEAN,
             multiline : BOOLEAN, flags : SUBSET OtherFlags] :
        OneWord \in in.flags =>
            /\ in.short /\ ~in.multiline
            /\ in.flags = {OneWord}
            /\ \A d \in DimensionIds : in.hits[d] = 0}

NoText == [hits |-> <<>>, short |-> FALSE, multiline |-> FALSE, flags |-> {}]

QualityInit ==
    /\ qinput \in TextInputs
    /\ quality = NotAssessed

QualityIdle ==
    /\ qinput = NoText
    /\ quality = NotAssessed

Assess ==
    /\ qinput # NoText
    /\ ~quality.assessed
    /\ quality' = assess_analysis_quality(qinput)
    /\ UNCHANGED qinput
    /\ UNCHANGED outsideQuality

(***************************************************************************)
(* run_conversation and the quality of the responses                       *)
(***************************************************************************)
ReviewAgents == 1..MaxAgents

\* the analysed text of a response: the one-word answer "yes", and a long
\* text with five hits in every dimension
OneWordText ==
    [hits |-> [d \in DimensionIds |-> 0], short |-> TRUE, multiline |-> FALSE,
     flags |-> {OneWord}]

DeepText ==
    [hits |-> [d \in DimensionIds |-> 5], short |-> FALSE, multiline |-> FALSE,
     flags |-> {}]

ReviewTexts == {OneWordText, DeepText}

NoPredictions == [done |-> FALSE, predictions |-> <<>>]

ReviewInit ==
    /\ vfirst \in [ReviewAgents -> ReviewTexts]
    /\ vcalls = [a \in ReviewAgents |-> 0]
    /\ vouts = <<>>
    /\ vconsensus = NoPredictions

ReviewIdle ==
    /\ vfirst = <<>>
    /\ vcalls = <<>>
    /\ vouts = <<>>
    /\ vconsensus = NoPredictions

\* call_agent(agent): one call of call_model with AGENT_PROMPT, and the
\* output appended to agent_outputs as the futures complete
CallAgentOnce(a) ==
    /\ a \in DOMAIN vcalls
    /\ vcalls[a] = 0
    /\ vcalls' = [vcalls EXCEPT ![a] = @ + 1]
    /\ vouts' = Append(vouts, [agent |-> a, text |-> vfirst[a], call |-> vcalls[a] + 1])
    /\ UNCHANGED <<vfirst, vconsensus>>
    /\ UNCHANGED outsideReview

\* agent_predictions: one prediction for every element of agent_outputs
CollectPredictions ==
    /\ vcalls # <<>>
    /\ \A a \in ReviewAgents : vcalls[a] > 0
    /\ ~vconsensus.done
    /\ vconsensus' =
          [done |-> TRUE,
           predictions |-> [i \in 1..Len(vouts) |->
                               [agent_name |-> vouts[i].agent, call |-> vouts[i].call]]]
    /\ UNCHANGED <<vfirst, vcalls, vouts>>
    /\ UNCHANGED outsideReview

(***************************************************************************)
(* security.SimpleRateLimiter                                              *)
(***************************************************************************)
\* the keys the callers use
LimiterKeys == {"test1", "test2"}

Seconds == 0..MaxClock

NoAnswer == [key |-> "", allowed |-> FALSE]

\* the timestamps that stay inside the window: now - ts <= window_sec
PrunedInclusive(reqs, t, window_sec) ==
    SelectSeq(reqs, LAMBDA ts : t - ts <= window_sec)

\* the timestamps that stay inside the window: now - ts < window_sec
Pruned(reqs, t, window_sec) ==
    SelectSeq(reqs, LAMBDA ts : t - ts < window_sec)

\* SimpleRateLimiter(max_requests, window_sec), with no request seen
LimiterInit ==
    /\ limiter \in [max_requests : 1..MaxQuota, window_sec : 1..MaxWindow]
    /\ requests = [k \in LimiterKeys |-> <<>>]
    /\ wall = 0
    /\ granted = [k \in LimiterKeys |-> [t \in Seconds |-> 0]]
    /\ answer = NoAnswer

LimiterIdle ==
    /\ limiter = [max_requests |-> 0, window_sec |-> 0]
    /\ requests = <<>>
    /\ wall = 0
    /\ granted = <<>>
    /\ answer = NoAnswer

\* is_allowed(key): prune, refuse when the quota is used, else record now
is_allowed(key) ==
    LET kept == Pruned(requests[key], wall, limiter.window_sec)
        ok == Len(kept) < limiter.max_requests
    IN  /\ requests' = [requests EXCEPT
                           ![key] = IF ok THEN Append(kept, wall) ELSE kept]
        /\ granted' = IF ok THEN [granted EXCEPT ![key][wall] = @ + 1]
                            ELSE granted
        /\ answer' = [key |-> key, allowed |-> ok]
        /\ UNCHANGED <<limiter, wall>>
        /\ UNCHANGED outsideLimiter

\* time() moves on between two calls
LimiterTick ==
    /\ wall < MaxClock
    /\ wall' = wall + 1
    /\ UNCHANGED <<limiter, requests, granted, answer>>
    /\ UNCHANGED outsideLimiter

(***************************************************************************)
(* storage.insert_articles                                                 *)
(***************************************************************************)
ArticleIds == {"a1", "a2"}

\* a text that is no string: the concatenation with the title raises
BadText == "<not a string>"

\* the title, text and summary the feeds deliver
Contents ==
    { [title |-> "A",  text |-> "BC",    summary |-> ""],
      [title |-> "AB", text |-> "C",     summary |-> ""],
      [title |-> "A",  text |-> "",      summary |-> "BC"],
      [title |-> "A",  text |-> "",      summary |-> ""],
      [title |-> "A",  text |-> BadText, summary |-> ""] }

ArticleInputs == {[id |-> i, content |-> c] : i \in ArticleIds, c \in Contents}

Batches == UNION {[1..n -> ArticleInputs] : n \in 0..MaxBatch}

\* a.get("text") or a.get("summary") or ""
TextOf(a) ==
    IF a.content.text # "" THEN a.content.text
    ELSE a.content.summary

\* sha256 of title + text, taken as injective on the concatenation
content_hash(a) == a.content.title \o TextOf(a)

Hashes == {content_hash(a) : a \in {b \in ArticleInputs : TextOf(b) # BadText}}

NoArticle == [title |-> "", text |-> "", content_hash |-> ""]

\* the tables after init_db
ArticlesInit ==
    /\ articles = [i \in ArticleIds |-> NoArticle]
    /\ ingest_log = [h \in Hashes |-> 0]
    /\ submitted = [h \in Hashes |-> 0]
    /\ inserts = 0

ArticlesIdle ==
    /\ articles = <<>>
    /\ ingest_log = <<>>
    /\ submitted = <<>>
    /\ inserts = 0

\* one article, every second sighting of a content included: the sighting
\* inserts a row under the id of the article and overwrites the count
InsertAlways(db, a) ==
    IF TextOf(a) = BadText THEN db
    ELSE LET h == content_hash(a)
         IN  [articles |-> [db.articles EXCEPT
                               ![a.id] = [title |-> a.content.title,
                                          text |-> TextOf(a),
                                          content_hash |-> h]],
              ingest_log |-> [db.ingest_log EXCEPT ![h] = 1]]

\* one article of the loop: a bad row is skipped, a content already in
\* ingest_log is counted, a new one is inserted in both tables
InsertOne(db, a) ==
    IF TextOf(a) = BadText THEN db
    ELSE LET h == content_hash(a)
         IN  IF db.ingest_log[h] > 0
             THEN [db EXCEPT !.ingest_log[h] = @ + 1]
             ELSE [articles |-> [db.articles EXCEPT
                                    ![a.id] = [title |-> a.content.title,
                                               text |-> TextOf(a),
                                               content_hash |-> h]],
                   ingest_log |-> [db.ingest_log EXCEPT ![h] = 1]]

RECURSIVE InsertAll(_, _)
\* the loop of insert_articles over the batch
InsertAll(db, batch) ==
    IF batch = <<>> THEN db
    ELSE InsertAll(InsertOne(db, Head(batch)), Tail(batch))

RECURSIVE Sightings(_, _)
\* how many articles of the batch carry the content hash h
Sightings(batch, h) ==
    IF batch = <<>> THEN 0
    ELSE (IF TextOf(Head(batch)) # BadText /\ content_hash(Head(batch)) = h
          THEN 1 ELSE 0) + Sightings(Tail(batch), h)

\* insert_articles(path, articles): the whole batch in one transaction
insert_articles(batch) ==
    /\ inserts < MaxInserts
    /\ LET db == InsertAll([articles |-> articles, ingest_log |-> ingest_log],
                           batch)
       IN  /\ articles' = db.articles
           /\ ingest_log' = db.ingest_log
    /\ submitted' = [h \in Hashes |-> submitted[h] + Sightings(batch, h)]
    /\ inserts' = inserts + 1
    /\ UNCHANGED outsideArticles

(***************************************************************************)
(* agents._call_ollama_http: the breaker around the retry around the call  *)
(***************************************************************************)
NoAttempt ==
    [outcome |-> "none", during |-> CLOSED, count_before |-> 0,
     count_after |-> 0]

LayerInit ==
    /\ lcb = NewBreaker
    /\ lnow = 0
    /\ lpc = "idle"
    /\ lattempt = 0
    /\ lresult = "none"
    /\ attemptLog = NoAttempt

LayerIdle == LayerInit

\* call_model while the breaker is OPEN inside the cooldown: the breaker
\* answers "degraded" without entering the retry wrapper, call_model raises
LayerBlocked ==
    /\ lpc = "idle"
    /\ Blocked(lcb, lnow)
    /\ lresult' = "raised: circuit breaker open"
    /\ UNCHANGED <<lcb, lnow, lpc, lattempt, attemptLog>>
    /\ UNCHANGED outsideLayer

\* call_model, through the gate of the breaker into the retry wrapper
LayerEnter ==
    /\ lpc = "idle"
    /\ ~Blocked(lcb, lnow)
    /\ lcb.failure_count < MaxFailureCount
    /\ lcb' = Gate(lcb, lnow)
    /\ lpc' = "attempt"
    /\ lattempt' = 1
    /\ lresult' = "none"
    /\ UNCHANGED <<lnow, attemptLog>>
    /\ UNCHANGED outsideLayer

\* an attempt at the backend returns: the retry wrapper returns, the breaker
\* runs _on_success, call_model returns the response
LayerAttemptReturns ==
    /\ lpc = "attempt"
    /\ lcb' = OnSuccessOllama(lcb)
    /\ attemptLog' = [outcome |-> "returned", during |-> lcb.state,
                      count_before |-> lcb.failure_count,
                      count_after |-> lcb'.failure_count]
    /\ lpc' = "idle"
    /\ lattempt' = 0
    /\ lresult' = "returned"
    /\ UNCHANGED lnow
    /\ UNCHANGED outsideLayer

\* an attempt at the backend raises and the retry wrapper tries again
LayerAttemptRetried ==
    /\ lpc = "attempt"
    /\ lattempt < max_attempts
    /\ attemptLog' = [outcome |-> "raised", during |-> lcb.state,
                      count_before |-> lcb.failure_count,
                      count_after |-> lcb.failure_count]
    /\ lattempt' = lattempt + 1
    /\ UNCHANGED <<lcb, lnow, lpc, lresult>>
    /\ UNCHANGED outsideLayer

\* the last attempt raises: RetryError leaves the retry wrapper, the
\* breaker runs _on_failure once, call_model raises
LayerAttemptsExhausted ==
    /\ lpc = "attempt"
    /\ lattempt = max_attempts
    /\ lcb' = OnFailureOllama(lcb, lnow)
    /\ attemptLog' = [outcome |-> "raised", during |-> lcb.state,
                      count_before |-> lcb.failure_count,
                      count_after |-> lcb'.failure_count]
    /\ lpc' = "idle"
    /\ lattempt' = 0
    /\ lresult' = "raised: RetryError"
    /\ UNCHANGED lnow
    /\ UNCHANGED outsideLayer

\* time passes, between calls and during the waits of the retry
LayerTick ==
    /\ lnow + TickSeconds <= MaxTime
    /\ lnow' = lnow + TickSeconds
    /\ UNCHANGED <<lcb, lpc, lattempt, lresult, attemptLog>>
    /\ UNCHANGED outsideLayer

(***************************************************************************)
(* The breakers against a backend that recovers                            *)
(***************************************************************************)
RecoveryInit ==
    /\ healthy = FALSE
    /\ healedFrom = "none"

RecoveryIdle == RecoveryInit

\* the backend recovers for good, with a cooldown of time still to come
BackendRecovers ==
    /\ ~healthy
    /\ now + timeout_seconds <= MaxTime
    /\ healthy' = TRUE
    /\ healedFrom' = cb.state
    /\ UNCHANGED outsideRecovery

\* call() whose func raises: only while the backend is down
CallFailureWhileDown == ~healthy /\ CallFailure

(***************************************************************************)
(* Specifications                                                          *)
(***************************************************************************)
InitBreaker == BreakerInit /\ RetryIdle /\ RaceInit /\ ConvIdle /\ CacheIdle /\ RepeatIdle /\ ClassifyIdle /\ ConsensusIdle /\ ReputationIdle /\ OutcomeIdle /\ QualityIdle /\ ReviewIdle /\ LimiterIdle /\ ArticlesIdle /\ LayerIdle /\ RecoveryIdle

NextBreaker ==
    \/ CallBlocked
    \/ CallSuccess
    \/ CallFailure
    \/ Tick

SpecBreaker == InitBreaker /\ [][NextBreaker]_vars

InitRetry == RetryInit /\ BreakerIdle /\ RaceInit /\ ConvIdle /\ CacheIdle /\ RepeatIdle /\ ClassifyIdle /\ ConsensusIdle /\ ReputationIdle /\ OutcomeIdle /\ QualityIdle /\ ReviewIdle /\ LimiterIdle /\ ArticlesIdle /\ LayerIdle /\ RecoveryIdle

NextRetry ==
    \/ AttemptReturns
    \/ AttemptRaisesRetry
    \/ AttemptRaisesFinal
    \/ AttemptRaisesSwallowed

SpecRetry == InitRetry /\ [][NextRetry]_vars

InitRace == RaceInit /\ BreakerIdle /\ RetryIdle /\ ConvIdle /\ CacheIdle /\ RepeatIdle /\ ClassifyIdle /\ ConsensusIdle /\ ReputationIdle /\ OutcomeIdle /\ QualityIdle /\ ReviewIdle /\ LimiterIdle /\ ArticlesIdle /\ LayerIdle /\ RecoveryIdle

NextRace ==
    \/ \E t \in Threads : ThreadCall(t)
    \/ \E t \in Threads : ThreadFuncReturns(t)
    \/ \E t \in Threads : ThreadLoadCount(t)
    \/ \E t \in Threads : ThreadStoreCount(t)
    \/ \E t \in Threads : ThreadStamp(t)
    \/ \E t \in Threads : ThreadTrip(t)

SpecRace == InitRace /\ [][NextRace]_vars

InitConv == ConvInit /\ BreakerIdle /\ RetryIdle /\ RaceInit /\ CacheIdle /\ RepeatIdle /\ ClassifyIdle /\ ConsensusIdle /\ ReputationIdle /\ OutcomeIdle /\ QualityIdle /\ ReviewIdle /\ LimiterIdle /\ ArticlesIdle /\ LayerIdle /\ RecoveryIdle

NextConv ==
    \/ RejectEmptyQuestion
    \/ NoAgentsConfigured
    \/ OrchestrationBlocked
    \/ SubmitAll
    \/ \E a \in Agents : WorkerStart(a)
    \/ \E a \in Agents : AgentCacheError(a)
    \/ \E a \in Agents : AgentCacheHit(a)
    \/ \E a \in Agents : AgentResponds(a)
    \/ \E a \in Agents : AgentDeclines(a)
    \/ \E a \in Agents : AgentUnparsed(a)
    \/ \E a \in Agents : AgentFails(a)
    \/ \E a \in Agents : Collect(a)
    \/ Normalize
    \/ Synthesize
    \/ ReputationConsensus
    \/ ReputationFails
    \/ Return

SpecConv == InitConv /\ [][NextConv]_vars

InitCache == CacheInit /\ BreakerIdle /\ RetryIdle /\ RaceInit /\ ConvIdle /\ RepeatIdle /\ ClassifyIdle /\ ConsensusIdle /\ ReputationIdle /\ OutcomeIdle /\ QualityIdle /\ ReviewIdle /\ LimiterIdle /\ ArticlesIdle /\ LayerIdle /\ RecoveryIdle

NextCache ==
    \/ \E c \in Callers, q \in Questions, a \in AgentNames : Lookup(c, q, a)
    \/ \E c \in Callers, o \in ModelOutputs : ModelCall(c, o)

SpecCache == InitCache /\ [][NextCache]_vars

InitRepeat == RepeatInit /\ CacheInit /\ BreakerIdle /\ RetryIdle /\ RaceInit /\ ConvIdle /\ ClassifyIdle /\ ConsensusIdle /\ ReputationIdle /\ OutcomeIdle /\ QualityIdle /\ ReviewIdle /\ LimiterIdle /\ ArticlesIdle /\ LayerIdle /\ RecoveryIdle

NextRepeat ==
    \/ \E a \in Panel, o \in ModelOutputs : DispatchAgent(a, o)
    \/ FinishRun
    \/ StartRun

SpecRepeat == InitRepeat /\ [][NextRepeat]_vars

InitClassify == ClassifyInit /\ BreakerIdle /\ RetryIdle /\ RaceInit /\ ConvIdle /\ CacheIdle /\ RepeatIdle /\ ConsensusIdle /\ ReputationIdle /\ OutcomeIdle /\ QualityIdle /\ ReviewIdle /\ LimiterIdle /\ ArticlesIdle /\ LayerIdle /\ RecoveryIdle

NextClassify == Classify

SpecClassify == InitClassify /\ [][NextClassify]_vars

InitConsensus == ConsensusInit /\ BreakerIdle /\ RetryIdle /\ RaceInit /\ ConvIdle /\ CacheIdle /\ RepeatIdle /\ ClassifyIdle /\ ReputationIdle /\ OutcomeIdle /\ QualityIdle /\ ReviewIdle /\ LimiterIdle /\ ArticlesIdle /\ LayerIdle /\ RecoveryIdle

NextConsensus == Aggregate

SpecConsensus == InitConsensus /\ [][NextConsensus]_vars

InitReputation == ReputationInit /\ BreakerIdle /\ RetryIdle /\ RaceInit /\ ConvIdle /\ CacheIdle /\ RepeatIdle /\ ClassifyIdle /\ ConsensusIdle /\ OutcomeIdle /\ QualityIdle /\ ReviewIdle /\ LimiterIdle /\ ArticlesIdle /\ LayerIdle /\ RecoveryIdle

NextReputation ==
    \/ \E k \in RowKinds : RecordVerified(k)
    \/ \E k \in RowKinds : RowAges(k)
    \/ CacheExpires
    \/ \E use_cache \in BOOLEAN : CalculateReputation(use_cache)

SpecReputation == InitReputation /\ [][NextReputation]_vars

InitOutcome == OutcomeInit /\ BreakerIdle /\ RetryIdle /\ RaceInit /\ ConvIdle /\ CacheIdle /\ RepeatIdle /\ ClassifyIdle /\ ConsensusIdle /\ ReputationIdle /\ QualityIdle /\ ReviewIdle /\ LimiterIdle /\ ArticlesIdle /\ LayerIdle /\ RecoveryIdle

NextOutcome ==
    \/ \E id \in PredictionIds, domain \in TrackedDomains : RecordPrediction(id, domain)
    \/ \E id \in PredictionIds, o \in {<<"correct", 100>>, <<"incorrect", 0>>} :
          RecordOutcome(id, o[1], o[2])
    \/ \E id \in PredictionIds, p \in {50, 100}, actual \in BOOLEAN :
          ValidatePrediction(id, p, actual)
    \/ \E domain \in TrackedDomains : ScoreExpires(domain)
    \/ \E domain \in TrackedDomains : ScoreAgent(domain)

SpecOutcome == InitOutcome /\ [][NextOutcome]_vars

InitQuality == QualityInit /\ BreakerIdle /\ RetryIdle /\ RaceInit /\ ConvIdle /\ CacheIdle /\ RepeatIdle /\ ClassifyIdle /\ ConsensusIdle /\ ReputationIdle /\ OutcomeIdle /\ ReviewIdle /\ LimiterIdle /\ ArticlesIdle /\ LayerIdle /\ RecoveryIdle

NextQuality == Assess

SpecQuality == InitQuality /\ [][NextQuality]_vars

InitReview == ReviewInit /\ BreakerIdle /\ RetryIdle /\ RaceInit /\ ConvIdle /\ CacheIdle /\ RepeatIdle /\ ClassifyIdle /\ ConsensusIdle /\ ReputationIdle /\ OutcomeIdle /\ QualityIdle /\ LimiterIdle /\ ArticlesIdle /\ LayerIdle /\ RecoveryIdle

NextReview ==
    \/ \E a \in ReviewAgents : CallAgentOnce(a)
    \/ CollectPredictions

SpecReview == InitReview /\ [][NextReview]_vars

InitLimiter == LimiterInit /\ BreakerIdle /\ RetryIdle /\ RaceInit /\ ConvIdle /\ CacheIdle /\ RepeatIdle /\ ClassifyIdle /\ ConsensusIdle /\ ReputationIdle /\ OutcomeIdle /\ QualityIdle /\ ReviewIdle /\ ArticlesIdle /\ LayerIdle /\ RecoveryIdle

NextLimiter ==
    \/ \E key \in LimiterKeys : is_allowed(key)
    \/ LimiterTick

SpecLimiter == InitLimiter /\ [][NextLimiter]_vars

InitArticles == ArticlesInit /\ BreakerIdle /\ RetryIdle /\ RaceInit /\ ConvIdle /\ CacheIdle /\ RepeatIdle /\ ClassifyIdle /\ ConsensusIdle /\ ReputationIdle /\ OutcomeIdle /\ QualityIdle /\ ReviewIdle /\ LimiterIdle /\ LayerIdle /\ RecoveryIdle

NextArticles == \E batch \in Batches : insert_articles(batch)

SpecArticles == InitArticles /\ [][NextArticles]_vars

InitLayer == LayerInit /\ BreakerIdle /\ RetryIdle /\ RaceInit /\ ConvIdle /\ CacheIdle /\ RepeatIdle /\ ClassifyIdle /\ ConsensusIdle /\ ReputationIdle /\ OutcomeIdle /\ QualityIdle /\ ReviewIdle /\ LimiterIdle /\ ArticlesIdle /\ RecoveryIdle

NextLayer ==
    \/ LayerBlocked
    \/ LayerEnter
    \/ LayerAttemptReturns
    \/ LayerAttemptRetried
    \/ LayerAttemptsExhausted
    \/ LayerTick

SpecLayer == InitLayer /\ [][NextLayer]_vars

InitRecovery == BreakerInit /\ RecoveryInit /\ RetryIdle /\ RaceInit /\ ConvIdle /\ CacheIdle /\ RepeatIdle /\ ClassifyIdle /\ ConsensusIdle /\ ReputationIdle /\ OutcomeIdle /\ QualityIdle /\ ReviewIdle /\ LimiterIdle /\ ArticlesIdle /\ LayerIdle

NextRecovery ==
    \/ CallBlocked
    \/ CallSuccess
    \/ CallFailureWhileDown
    \/ Tick
    \/ BackendRecovers

\* time keeps advancing and the callers keep calling
SpecRecovery ==
    /\ InitRecovery
    /\ [][NextRecovery]_vars
    /\ WF_vars(Tick)
    /\ WF_vars(CallSuccess)

(***************************************************************************)
(* Claims about the circuit breakers                                       *)
(***************************************************************************)
\* C1: after failure_threshold consecutive failed calls (no success in
\* between) the breaker is OPEN, and a call made while it is OPEN and less
\* than timeout_seconds after the last failure returns the degraded result
\* (or raises CircuitBreakerOpenError) without invoking the wrapped function.
C1_TripAndFailFast ==
    /\ (consecFails >= failure_threshold => cb.state = OPEN)
    /\ (lastCall.result # "none" /\ lastCall.from = OPEN
          /\ lastCall.elapsed < timeout_seconds)
        => (lastCall.result = "blocked" /\ ~lastCall.invoked)

\* a call made 30 s after the failure_threshold-th consecutive failure was blocked
C1_Witness ==
    /\ consecFails = failure_threshold
    /\ lastCall.result = "blocked"
    /\ lastCall.elapsed > 0
    /\ lastCall.elapsed < timeout_seconds

\* C2: once the cooldown has elapsed the next call moves OPEN -> HALF_OPEN
\* (it probes the backend), and a successful probe closes the breaker exactly
\* when success_threshold consecutive successes have been seen in the
\* current half-open period.
C2_HalfOpenRecovery ==
    /\ (lastCall.from = OPEN /\ lastCall.elapsed >= timeout_seconds)
        => lastCall.probe
    /\ (lastCall.probe /\ lastCall.result = "success")
        => (cb.state = CLOSED <=> hoSucc = success_threshold)
    /\ (lastCall.probe /\ lastCall.result = "success" /\ cb.state # CLOSED)
        => cb.state = HALF_OPEN

\* C3: a failed call while HALF_OPEN moves the breaker straight back to OPEN
\* with the cooldown clock restarted at that failure: every later call made
\* less than timeout_seconds after it is blocked without invoking func.
C3_HalfOpenFailureReopens ==
    /\ (lastCall.result = "failure" /\ lastCall.probe)
        => (cb.state = OPEN /\ cb.last_failure_time = lastCall.at
            /\ hoFailAt = lastCall.at)
    /\ (hoFailAt # None /\ lastCall.result # "none"
          /\ ~(lastCall.result = "failure" /\ lastCall.probe)
          /\ lastCall.at - hoFailAt < timeout_seconds)
        => (lastCall.result = "blocked" /\ ~lastCall.invoked)

\* a probe failed, and a call made 30 s later was blocked although more than
\* timeout_seconds have passed since the failure that first opened the breaker
C3_Witness ==
    /\ hoFailAt # None
    /\ lastCall.result = "blocked"
    /\ lastCall.at - hoFailAt = TickSeconds
    /\ cb.state = OPEN
    /\ cb.failure_count > failure_threshold

(***************************************************************************)
(* Claims about the retry decorators                                       *)
(***************************************************************************)
WaitsFollowSchedule ==
    \A k \in 1..Len(waits) :
        waits[k] = Min(rparams.base * Pow2(k - 1), rparams.max)

\* C4 as stated: a call whose every attempt fails is attempted at most limit
\* times in total (limit being max_attempts or max_retries), the failure is
\* then raised, and the wait before attempt k+1 is min(base * 2^(k-1), max).
C4_AtMostLimitAttempts ==
    /\ attempts <= rparams.limit
    /\ (rkind # FALLBACK /\ rpc # "ready" /\ lastErr # "none") => rpc = "raised"
    /\ WaitsFollowSchedule

\* C4 (amended): with_retry_and_timeout makes at most max_attempts attempts
\* and with_exponential_backoff at most max_retries + 1; when all of them
\* fail the failure is raised after exactly that many attempts (without
\* tenacity: one attempt, None returned); the wait before attempt k+1 is
\* min(base * 2^(k-1), max delay).
C4_AttemptBudget ==
    /\ rkind = TENACITY =>
          /\ attempts <= rparams.limit
          /\ (rpc = "raised" <=> (attempts = rparams.limit /\ lastErr # "none"))
    /\ rkind = BACKOFF =>
          /\ attempts <= rparams.limit + 1
          /\ (rpc = "raised" <=> (attempts = rparams.limit + 1 /\ lastErr # "none"))
    /\ rkind = FALLBACK =>
          /\ attempts <= 1
          /\ rpc # "raised"
          /\ (rpc = "returned_none" <=> (attempts = 1 /\ lastErr # "none"))
    /\ Len(waits) = (IF rpc = "ready" THEN attempts ELSE attempts - 1)
    /\ WaitsFollowSchedule

\* with_exponential_backoff(max_retries=3, base_delay=1, max_delay=3) gave up
\* after its fourth attempt, the last wait having hit the cap
C4_Witness ==
    /\ rkind = BACKOFF
    /\ rparams = [limit |-> 3, base |-> 1, max |-> 3]
    /\ rpc = "raised"
    /\ attempts = 4
    /\ waits = <<1, 2, 3>>

\* C5: a malformed-input error (the empty model identifier) is not retried
\* by the model caller (with_retry_and_timeout(max_attempts=3)): the raw call
\* is attempted exactly once and the error is raised; transient failures are
\* retried until the attempts are used up.
C5_MalformedNotRetried ==
    (rkind = TENACITY /\ rparams.limit = 3) =>
        /\ (rinput = "empty_model" /\ rpc # "ready")
             => (attempts = 1 /\ rpc = "raised")
        /\ rinput = "empty_model" => attempts <= 1
        /\ (rpc = "raised" /\ lastErr \in TransientErrors) => attempts = 3

(***************************************************************************)
(* Claims about concurrent failure reporting                               *)
(***************************************************************************)
\* C6: with several threads reporting failures through the shared breaker no
\* update is lost: once the threads are back from k failed calls, no call
\* having succeeded, failure_count is k and the breaker is OPEN as soon as k
\* has reached failure_threshold.
C6_NoLostUpdate ==
    ((\A t \in Threads : tpc[t] = "idle") /\ ~anySuccess) =>
        /\ cb.failure_count = failedCalls
        /\ (failedCalls >= failure_threshold => cb.state = OPEN)

(***************************************************************************)
(* Claims about run_conversation                                           *)
(***************************************************************************)
\* the dispatch phase is over
DispatchDone ==
    \/ mpc \in {"synth", "reputation", "report"}
    \/ mpc = "done" /\ outcome = "complete"

Entries == agent_outputs \o declined_agents

EntriesOf(a) == {i \in 1..Len(Entries) : Entries[i].agent = a}

Raised == {a \in Agents : res[a].kind = "raised"}

\* C7: the dispatch phase yields exactly one result per panel member:
\* len(agent outputs) + len(declined_agents) is the panel size, every agent
\* whose call returned has exactly one record, every call that raised has one
\* "Unknown" record, and a failing call stops no sibling from settling.
C7_OneResultPerAgent ==
    DispatchDone =>
        /\ Len(agent_outputs) + Len(declined_agents) = nAgents
        /\ \A a \in Agents :
              /\ fut[a] = "collected"
              /\ res[a].kind # "none"
              /\ Cardinality(EntriesOf(a)) = (IF a \in Raised THEN 0 ELSE 1)
        /\ Cardinality(EntriesOf(0)) = Cardinality(Raised)

\* a panel of three of which one call failed and one raised, all recorded
C7_Witness ==
    /\ DispatchDone
    /\ nAgents = 3
    /\ \E a, b, c \in Agents :
          /\ res[a].kind = "failed"
          /\ res[b].kind = "raised"
          /\ res[c].kind = "response"
    /\ Len(agent_outputs) = 3

\* agents that were dispatched successfully: neither declined nor failed
Succeeded == {a \in Agents : res[a].kind \in {"response", "unparsed"}}

\* C8: when fewer than 2 agents are successfully dispatched, run_conversation
\* returns a terminal result whose probability and confidence are not
\* numbers, and no synthesis is performed.
C8_InsufficientPanel ==
    (mpc = "done" /\ question # "" /\ Cardinality(Succeeded) < 2) =>
        /\ summary.probability = NoNumber
        /\ summary.confidence = NoNumber
        /\ ~synthCalled

RECURSIVE SumWeights(_)
SumWeights(S) ==
    IF S = {} THEN 0
    ELSE LET a == CHOOSE x \in S : TRUE
         IN Weight(a) + SumWeights(S \ {a})

PredictionAgents == {agent_predictions[i].agent : i \in 1..Len(agent_predictions)}

\* C9: the total weight dividing the consensus is the sum of the weights of
\* the agents that succeeded, a declined or failed agent adds nothing, and
\* declined_agents holds exactly the agents that declined.
C9_OnlySuccessfulVote ==
    DispatchDone =>
        /\ total_weight = SumWeights(Succeeded)
        /\ {declined_agents[i].agent : i \in 1..Len(declined_agents)}
              = {a \in Agents : res[a].kind = "declined"}
        /\ reputation_consensus.present => PredictionAgents \subseteq Succeeded

\* the weighted means have been formed
Normalized == weighted_probability[2] # 1 \/ weighted_confidence[2] # 1

\* C10: the weighted means, the synthesis call and the reputation-weighted
\* consensus start only once every scheduled agent call has settled and
\* been collected, whatever the order in which the workers finish.
C10_FanInBarrier ==
    (mpc \in {"synth", "reputation", "report"} \/ Normalized \/ synthCalled
       \/ reputation_consensus.present \/ outcome = "complete") =>
        /\ \A a \in Agents : fut[a] = "collected"
        /\ Len(agent_outputs) + Len(declined_agents) = nAgents

\* agent 3 finished first and agent 1 last, and the synthesis is about to
\* start with all three collected
C10_Witness ==
    /\ mpc = "synth"
    /\ nAgents = 3
    /\ Len(agent_outputs) = 3
    /\ agent_outputs[1].agent = 3
    /\ agent_outputs[3].agent = 1

(***************************************************************************)
(* Claims about the response cache                                         *)
(***************************************************************************)
\* C11: a call_agent whose (question hash, agent name) had a stored entry
\* when it looked returns that entry with cached = TRUE and without calling
\* the model, and with the declined / non-declined outcome of the call that
\* stored the entry; and a hit only ever comes from an entry stored under
\* the same question hash and the same agent name.
C11_CacheShortCircuit ==
    \A c \in Callers :
        cpc[c] = "returned" =>
            /\ hadRow[c] # NoRow =>
                  /\ cres[c].cached
                  /\ ~modelCalled[c]
                  /\ cres[c].raw = hadRow[c].raw_response
                  /\ cres[c].declined = origin[hadRow[c].id].declined
            /\ cres[c].cached =>
                  /\ hadRow[c] # NoRow
                  /\ origin[hadRow[c].id].a = carg[c].a
                  /\ hash_question(origin[hadRow[c].id].q) = hash_question(carg[c].q)

\* C12: when call_agent is called for a (question, agent) pair after an
\* earlier call of the same pair has stored its answer, and the row is still
\* there, the later call is a cache hit and its parsed dict equals the parsed
\* dict the earlier call returned.
C12_CacheIdempotence ==
    \A c \in Callers :
        (/\ cpc[c] = "returned"
         /\ hadRow[c] # NoRow
         /\ origin[hadRow[c].id].q = carg[c].q) =>
            /\ cres[c].cached
            /\ cres[c].parsed = origin[hadRow[c].id].parsed

(***************************************************************************)
(* Claims about repeated runs                                              *)
(***************************************************************************)
\* every agent of the run answered with a parsed dict (a brief or a decline)
AllAnswered(r) ==
    /\ \A i \in 1..Len(r.agents) : r.agents[i].parsed.isDict
    /\ \A i \in 1..Len(r.declined_agents) : r.declined_agents[i].parsed.isDict

AllCached(r) ==
    /\ \A i \in 1..Len(r.agents) : r.agents[i].cached
    /\ \A i \in 1..Len(r.declined_agents) : r.declined_agents[i].cached

SameQuotient(x, y) == x[1] * y[2] = y[1] * x[2]

\* the two runs report the same consensus probability
SameConsensus(r1, r2) ==
    /\ r1.reputation_consensus.present = r2.reputation_consensus.present
    /\ SameQuotient(r1.reputation_consensus.consensus_probability,
                    r2.reputation_consensus.consensus_probability)
    /\ SameQuotient(r1.weighted_probability, r2.weighted_probability)

\* C13: when the same question is run a second time on the cache the first
\* run left, and every agent of the first run answered (brief or decline),
\* the second run reports cached = TRUE for every agent and the same
\* consensus probability as the first run.
C13_RepeatRun ==
    (Len(runs) >= 2 /\ AllAnswered(runs[1])) =>
        /\ AllCached(runs[2])
        /\ SameConsensus(runs[1], runs[2])

(***************************************************************************)
(* Claims about the domain classifier                                      *)
(***************************************************************************)
Classified == counts # <<>> /\ classification # NotClassified

NoMatch == \A d \in DomainIds : counts[d] = 0

\* C14: for a question in which no domain pattern matches (every count is
\* zero) classify does not raise and returns the default domain
\* "geopolitical" with confidence 0.3 and no secondary domain.
C14_ClassifierFallback ==
    (Classified /\ NoMatch) =>
        /\ ~classification.raised
        /\ classification.primary_domain = "geopolitical"
        /\ classification.confidence = <<3, 10>>
        /\ classification.secondary_domains = <<>>

ScoreOf(name) == counts[CHOOSE d \in DomainIds : Domains[d] = name]

SecondaryNames ==
    {classification.secondary_domains[i].domain :
        i \in 1..Len(classification.secondary_domains)}

\* C15: for counts with at least one match, the primary domain has the
\* highest count and confidence count / sum of counts; there are at most two
\* secondary domains, none of them the primary, each with a count of at
\* least 20% of the primary's, listed in descending order of count with
\* their share of the sum, and every domain left out has a count no higher
\* than those listed (or, with fewer than two listed, below the threshold).
C15_ClassifierRanking ==
    (Classified /\ ~NoMatch) =>
        LET sec == classification.secondary_domains
            p == ScoreOf(classification.primary_domain)
            total == TotalScore(DomainScores(counts))
        IN /\ ~classification.raised
           /\ \A d \in DomainIds : counts[d] <= p
           /\ classification.confidence = <<p, total>>
           /\ Len(sec) <= 2
           /\ \A i \in 1..Len(sec) :
                 /\ sec[i].domain # classification.primary_domain
                 /\ 5 * ScoreOf(sec[i].domain) >= p
                 /\ sec[i].score = <<ScoreOf(sec[i].domain), total>>
           /\ \A i, j \in 1..Len(sec) :
                 i < j => /\ ScoreOf(sec[i].domain) >= ScoreOf(sec[j].domain)
                          /\ sec[i].domain # sec[j].domain
           /\ \A d \in DomainIds :
                 (Domains[d] \notin SecondaryNames
                    /\ Domains[d] # classification.primary_domain) =>
                     /\ \A i \in 1..Len(sec) : counts[d] <= ScoreOf(sec[i].domain)
                     /\ Len(sec) < 2 => 5 * counts[d] < p

\* a question with a clear primary, two secondary domains, one qualifying
\* domain cut off by the limit of two, and one domain below the threshold
C15_Witness ==
    /\ Classified
    /\ ~classification.raised
    /\ Len(classification.secondary_domains) = 2
    /\ \E d \in DomainIds :
          /\ Domains[d] \notin SecondaryNames
          /\ Domains[d] # classification.primary_domain
          /\ 5 * counts[d] >= ScoreOf(classification.primary_domain)
    /\ \E d \in DomainIds :
          counts[d] > 0 /\ 5 * counts[d] < ScoreOf(classification.primary_domain)


(***************************************************************************)
(* Claims about the weights and the dissent of the consensus               *)
(***************************************************************************)
Aggregated == consensus.done

\* base_weight * reputation_score * confidence of output i without the
\* factor of the domain
UnitWeight(i) ==
    ConfiguredWeight(cinput.outs[i].agent) * Reputation[cinput.outs[i].agent]
        * cinput.outs[i].confidence

\* C16: the weight of every response that enters the consensus is
\* baseWeight * relevanceBoost * reputationScore * responseConfidence, with
\* a relevanceBoost of 1.5 (primary domain declared), 1.2 (a secondary
\* domain declared), 0.6 (domains declared, none matches) or 0.8 (no domain
\* declared).
C16_AdjustedWeight ==
    Aggregated =>
        \A i \in 1..Len(cinput.outs) :
            consensus.final_weights[i] =
                UnitWeight(i)
                    * calculate_agent_relevance(cinput.classification, cinput.outs[i].agent)

\* C17: the consensus never divides by zero; when the sum of the weights is
\* zero the consensus probability is 0.5 and the consensus confidence is
\* 0.5, and otherwise they are the weighted means sum(p_i * w_i) / sum(w_i)
\* and sum(c_i * w_i) / sum(w_i).
C17_ZeroTotalWeight ==
    Aggregated =>
        LET r == consensus.result
            preds == consensus.predictions
        IN /\ r.present
           /\ r.total_weight = 0 =>
                 /\ SameQuotient(r.consensus_probability, <<50, 1>>)
                 /\ SameQuotient(r.consensus_confidence, <<50, 1>>)
           /\ r.total_weight # 0 =>
                 /\ SameQuotient(r.consensus_probability,
                        <<WeightedProbabilitySum(preds, Reputation, TRUE), r.total_weight>>)
                 /\ SameQuotient(r.consensus_confidence,
                        <<WeightedConfidenceSum(preds, Reputation, TRUE), r.total_weight>>)

\* the agents whose probability differs from the consensus probability by
\* strictly more than 0.2
Dissenters ==
    {i \in 1..Len(cinput.outs) :
        LET cp == consensus.result.consensus_probability
        IN \/ cinput.outs[i].probability * cp[2] - cp[1] > 20 * cp[2]
           \/ cp[1] - cinput.outs[i].probability * cp[2] > 20 * cp[2]}

\* the probabilities of the agents in the consensus
ProbabilitiesIn == {cinput.outs[i].probability : i \in 1..Len(cinput.outs)}

\* C18: dissent_percentage is the number of agents whose probability
\* differs from the consensus probability by strictly more than 0.2,
\* divided by the number of agents in the consensus; requires_review is
\* true exactly when dissent_percentage > 0.4; probabilities 0.1, 0.9, 0.5
\* around a consensus of 0.5 give two dissenters and requires_review.
C18_Dissent ==
    (Aggregated /\ Len(cinput.outs) > 0) =>
        LET r == consensus.result
        IN /\ r.present
           /\ r.count = Len(cinput.outs)
           /\ r.dissent_count = Cardinality(Dissenters)
           /\ r.requires_review <=> (10 * Cardinality(Dissenters) > 4 * Len(cinput.outs))
           /\ (/\ Len(cinput.outs) = 3
               /\ ProbabilitiesIn = {10, 90, 50}
               /\ SameQuotient(r.consensus_probability, <<50, 1>>)) =>
                  /\ r.dissent_count = 2
                  /\ r.requires_review

\* probabilities 0.1, 0.9 and 0.5 around a consensus of 0.5
C18_Witness ==
    /\ Aggregated
    /\ Len(cinput.outs) = 3
    /\ ProbabilitiesIn = {10, 90, 50}
    /\ consensus.result.total_weight > 0
    /\ SameQuotient(consensus.result.consensus_probability, <<50, 1>>)
    /\ consensus.result.dissent_count = 2
    /\ consensus.result.requires_review


(***************************************************************************)
(* Claims about the reputation score                                       *)
(***************************************************************************)
RECURSIVE GCD(_, _)
GCD(x, y) == IF y = 0 THEN x ELSE GCD(y, x % y)

\* two scores (quotients with a positive denominator) are the same number
SameScore(x, y) ==
    <<x[1] \div GCD(x[1], x[2]), x[2] \div GCD(x[1], x[2])>>
        = <<y[1] \div GCD(y[1], y[2]), y[2] \div GCD(y[1], y[2])>>

\* raw = 0.5 * baseAccuracy + 0.3 * recentAccuracy + 0.2 * (1 - mean
\* absolute calibration error) of the rows b (of which there is one at
\* least), the recent accuracy being the base accuracy when no row is recent
RawScore(b) ==
    LET n == TotalRows(b)
        nrecent == BagSum(b, DOMAIN b, "recent")
        sumAccuracy == BagSum(b, DOMAIN b, "accuracy")
        sumRecent == BagSum(b, DOMAIN b, "recent_accuracy")
        sumError == BagSum(b, DOMAIN b, "error")
    IN IF nrecent = 0
       THEN <<5 * sumAccuracy + 3 * sumAccuracy + 2 * (100 * n - sumError), 10 * n>>
       ELSE <<5 * sumAccuracy * nrecent + 3 * sumRecent * n
                  + 2 * (100 * n - sumError) * nrecent,
              10 * n * nrecent>>

\* the score of the claim for the rows b: 0.5 without rows, raw * (n/10) +
\* 0.5 * (1 - n/10) below 10 rows, raw from 10 rows on
BlendedScore(b) ==
    LET n == TotalRows(b)
    IN IF n = 0 THEN <<50, 1>>
       ELSE IF n < 10
            THEN <<RawScore(b)[1] * n + 50 * (10 - n) * RawScore(b)[2], 10 * RawScore(b)[2]>>
            ELSE RawScore(b)

\* a score within [0,1]
InUnitInterval(s) == s[2] > 0 /\ 0 <= s[1] /\ s[1] <= 100 * s[2]

RecordedIds(domain) == {id \in outcomeIds : predictions[id].domain = domain}

\* C20: recording an outcome for a prediction id that already has one
\* overwrites the stored outcome and accuracy and adds no sample; the sample
\* size of an (agent, domain) pair is the number of distinct prediction ids
\* with an outcome; recording the same outcome twice leaves the reputation
\* score as it was after recording it once.
C20_OutcomeIdempotent ==
    predictions # <<>> =>
        /\ \A domain \in TrackedDomains :
              /\ TotalRows(BagOf(predictions, domain)) = Cardinality(RecordedIds(domain))
              /\ score_cache[domain].present =>
                    score_cache[domain].sample_size = Cardinality(RecordedIds(domain))
        /\ (lastOp.op = "record_outcome" /\ lastOp.existed) =>
              /\ lastOp.storedOutcome = lastOp.outcome
              /\ lastOp.storedAccuracy = lastOp.accuracy_score
              /\ ~score_cache[predictions[lastOp.id].domain].present
        /\ (lastOp.op = "record_outcome" /\ lastOp.had) =>
              lastOp.sizeAfter = lastOp.sizeBefore
        /\ (lastOp.op = "record_outcome" /\ lastOp.same) =>
              SameScore(lastOp.scoreAfter, lastOp.scoreBefore)

\* an outcome recorded over a different one, in a domain with two verified
\* predictions
C20_Witness ==
    /\ predictions # <<>>
    /\ lastOp.op = "record_outcome"
    /\ lastOp.had
    /\ ~lastOp.same
    /\ lastOp.sizeAfter = 2
    /\ ~SameScore(lastOp.scoreAfter, lastOp.scoreBefore)


(***************************************************************************)
(* Claims about the quality gate                                           *)
(***************************************************************************)
\* the weighted sum of the dimension scores of the assessed text
WeightedSum ==
    25 * quality.scores[1] + 20 * quality.scores[2] + 15 * quality.scores[3]
        + 15 * quality.scores[4] + 15 * quality.scores[5] + 10 * quality.scores[6]

\* min(0.3, 0.1 * redFlagCount)
FlagPenalty ==
    IF Cardinality(quality.red_flags) >= 3 THEN 150
    ELSE 50 * Cardinality(quality.red_flags)

\* C21: each of the six dimension scores is min(1, hits/5); depth_score is
\* max(0, weighted sum with the weights 0.25/0.20/0.15/0.15/0.15/0.10 minus
\* min(0.3, 0.1 * redFlagCount)) and lies in [0,1]; needs_requery is true
\* exactly when depth_score < 0.6 or redFlagCount >= 2; at most 3 follow-up
\* questions are returned, none when needs_requery is false.
C21_QualityGate ==
    quality.assessed =>
        /\ \A d \in DimensionIds :
              /\ quality.scores[d] <= 5
              /\ qinput.hits[d] <= 5 => quality.scores[d] = qinput.hits[d]
              /\ qinput.hits[d] >= 5 => quality.scores[d] = 5
        /\ WeightedSum >= FlagPenalty => quality.depth_score = WeightedSum - FlagPenalty
        /\ WeightedSum <= FlagPenalty => quality.depth_score = 0
        /\ 0 <= quality.depth_score
        /\ quality.depth_score <= 500
        /\ quality.needs_requery <=>
              (quality.depth_score < 300 \/ Cardinality(quality.red_flags) >= 2)
        /\ quality.follow_up_questions <= 3
        /\ ~quality.needs_requery => quality.follow_up_questions = 0

\* a deep text with four red flags: the penalty is capped, the depth score
\* is above the threshold and the flags alone force the requery
C21_Witness ==
    /\ quality.assessed
    /\ Cardinality(quality.red_flags) >= 4
    /\ quality.depth_score >= 300
    /\ quality.needs_requery
    /\ quality.follow_up_questions > 0
    /\ \E d \in DimensionIds : qinput.hits[d] > 5

\* C22: a response whose analysed text is shorter than about 150 characters
\* always gets needs_requery = true, whatever pattern hits it contains.
C22_ShortAlwaysRequeried ==
    (quality.assessed /\ qinput.short) => quality.needs_requery


(***************************************************************************)
(* Claims about the requery round                                          *)
(***************************************************************************)
\* the calls whose response reaches the consensus for agent a
CallsInConsensus(a) ==
    {vconsensus.predictions[i].call :
        i \in {j \in 1..Len(vconsensus.predictions) :
                  vconsensus.predictions[j].agent_name = a}}

\* C23: every agent whose first response has needs_requery = true is
\* re-invoked exactly once, and its second response replaces the first in
\* the responses that reach the consensus; an agent whose response passed
\* the quality check is not re-invoked.
C23_SingleRequeryRound ==
    vconsensus.done =>
        \A a \in ReviewAgents :
            IF assess_analysis_quality(vfirst[a]).needs_requery
            THEN vcalls[a] = 2 /\ CallsInConsensus(a) = {2}
            ELSE vcalls[a] = 1 /\ CallsInConsensus(a) = {1}


(***************************************************************************)
(* Claims about the synthesis                                              *)
(***************************************************************************)
\* the synthesizer call failed, or its text was no JSON object
SynthesisFailed == summary.verdict \in {"raw_summary[:500]", "Synthesis complete"}

\* C24: when the synthesizer call fails or its text is no JSON object,
\* run_conversation still returns a result; its summary carries the
\* probability and the confidence of the consensus the run reports and, on
\* a parse failure, the truncated synthesizer text as the verdict.
C24_SynthesisNeverFatal ==
    (mpc = "done" /\ synthCalled /\ SynthesisFailed) =>
        /\ outcome = "complete"
        /\ reputation_consensus.present =>
              /\ SameQuotient(summary.probability,
                              reputation_consensus.consensus_probability)
              /\ SameQuotient(summary.confidence,
                              reputation_consensus.consensus_confidence)


(***************************************************************************)
(* Claims about the rate limiter                                           *)
(***************************************************************************)
RECURSIVE GrantedIn(_, _, _)
\* how many calls for key k returned True in the seconds lo..hi
GrantedIn(k, lo, hi) ==
    IF hi < lo THEN 0
    ELSE (IF hi \in Seconds THEN granted[k][hi] ELSE 0) + GrantedIn(k, lo, hi - 1)

\* no window of window_sec seconds holds more than max_requests granted calls
WithinQuota ==
    \A k \in LimiterKeys : \A t \in Seconds :
        GrantedIn(k, t, t + limiter.window_sec - 1) <= limiter.max_requests

\* C25: for each key at most max_requests calls of is_allowed return True in
\* any window of window_sec seconds; a call is refused exactly when
\* max_requests calls of its key were granted inside the window; a refused
\* call uses no quota; and a call changes nothing for the other keys.
C25_RateLimit ==
    [][wall' = wall =>
        LET k == answer'.key
            used == GrantedIn(k, wall - limiter.window_sec + 1, wall)
        IN  /\ answer'.allowed <=> used < limiter.max_requests
            /\ ~answer'.allowed =>
                  /\ granted' = granted
                  /\ Len(requests'[k]) <= Len(requests[k])
            /\ \A j \in LimiterKeys \ {k} :
                  requests'[j] = requests[j] /\ granted'[j] = granted[j]
            /\ WithinQuota']_limiterVars

\* a call of test1 is refused at the end of a full window while test2 was
\* granted in between, and an older grant of test1 has left the window
C25_Witness ==
    /\ answer = [key |-> "test1", allowed |-> FALSE]
    /\ Len(requests["test2"]) > 0
    /\ GrantedIn("test1", 0, wall) > limiter.max_requests


(***************************************************************************)
(* Claims about the deduplication of articles                              *)
(***************************************************************************)
\* the ids whose row of the articles table carries the content hash h
RowsWith(h) == {i \in ArticleIds : articles[i].content_hash = h}

\* C26: after any sequence of insert_articles calls the articles table
\* holds at most one row per content hash, duplicates of one batch under
\* different ids included, and the ingest_log count of a content hash is
\* the number of times an article with that content was submitted.
C26_Deduplication ==
    \A h \in Hashes :
        /\ Cardinality(RowsWith(h)) <= 1
        /\ ingest_log[h] = submitted[h]

\* one content was submitted three times, under both ids and in two
\* spellings of title and text, and one row carries it
C26_Witness ==
    /\ submitted["ABC"] >= 3
    /\ Cardinality(RowsWith("ABC")) = 1
    /\ inserts = MaxInserts


(***************************************************************************)
(* Claims about the layering of the resilient caller                       *)
(***************************************************************************)
\* C27: every attempt of the retry passes through the breaker: an attempt
\* that fails adds one to the failure count of the breaker, and no attempt
\* reaches the backend while the breaker is OPEN.
C27_AttemptsThroughBreaker ==
    /\ attemptLog.outcome = "raised" =>
          attemptLog.count_after = attemptLog.count_before + 1
    /\ attemptLog.outcome # "none" => attemptLog.during # OPEN


(***************************************************************************)
(* Claims about the state of the breaker                                   *)
(***************************************************************************)
\* C28: with calls made one at a time, a CLOSED breaker has counted fewer
\* failures than failure_threshold, an OPEN or HALF_OPEN one has its
\* last_failure_time set and at least failure_threshold failures counted,
\* a call that succeeds while CLOSED leaves failure_count at 0, and the
\* breaker goes from CLOSED to OPEN only after failure_threshold failures
\* with no success in between.
C28_BreakerStateInvariant ==
    /\ cb.state = CLOSED => cb.failure_count < failure_threshold
    /\ cb.state \in {OPEN, HALF_OPEN} =>
          /\ cb.last_failure_time # None
          /\ cb.failure_count >= failure_threshold
    /\ (lastCall.result = "success" /\ lastCall.from = CLOSED) =>
          cb.failure_count = 0
    /\ (lastCall.result = "failure" /\ lastCall.from = CLOSED
            /\ cb.state = OPEN) =>
          consecFails >= failure_threshold

\* failures, a success and failures again have left the breaker CLOSED,
\* and it has been OPEN and HALF_OPEN before
C28_Witness ==
    /\ cb.state = CLOSED
    /\ cb.failure_count = failure_threshold - 1
    /\ hoFailAt # None
    /\ lastCall.result = "failure"


(***************************************************************************)
(* Claims about the recovery of the breaker                                *)
(***************************************************************************)
\* C29: once every backend call succeeds, with time advancing and callers
\* calling, the breaker reaches CLOSED and stays CLOSED: it does not remain
\* OPEN or HALF_OPEN forever.
C29_BreakerRecovers == healthy ~> [](cb.state = CLOSED)

\* the backend recovered while the breaker was OPEN and the breaker has
\* closed through its half-open probes
C29_Witness ==
    /\ healthy
    /\ healedFrom = OPEN
    /\ cb.state = CLOSED
    /\ lastCall.from = HALF_OPEN


(***************************************************************************)
(* Claims about the writes of the response cache                           *)
(***************************************************************************)
\* the key of the pair a caller was dispatched with
KeyOf(c) == <<hash_question(carg[c].q), carg[c].a>>

\* C30: a cache entry is written once per (question hash, agent name):
\* cache_response on a pair that has an entry leaves the entry unchanged and
\* returns the id of that entry, so after two concurrent misses of one pair
\* the entry is the first one written and every later hit returns it.
C30_WriteOnce ==
    [][/\ \A k \in Keys : table[k] # NoRow => table'[k] = table[k]
       /\ \A c \in Callers :
             stored'[c] # None => stored'[c] = table'[KeyOf(c)']. id
       /\ \A c \in Callers :
             cres'[c].cached =>
                cres'[c] = CachedDict(carg'[c].a, table'[KeyOf(c)'])]_cacheVars

\* two callers missed the same pair, both called the model and got different
\* answers, both stored, and both were given the id of the one entry
C30_Witness ==
    /\ carg[1] = carg[2]
    /\ hadRow[1] = NoRow /\ hadRow[2] = NoRow
    /\ modelCalled[1] /\ modelCalled[2]
    /\ cres[1] # cres[2]
    /\ stored[1] # None /\ stored[1] = stored[2]
    /\ Len(origin) = 1


====
